---------------------------- MODULE Spec2Model ----------------------------
(***************************************************************************)
(* Policy enforcer and response composer of the gaming chatbot backend:    *)
(*   backend/main.py                      enforce_output_rules, Response   *)
(*   backend/services/plot_processing.py  clean_plot_text,                 *)
(*                                        split_plot_sections,             *)
(*                                        extract_spoiler_free             *)
(*   backend/formatters/response_formatter.py  format_response             *)
(*                                                                         *)
(* A Python str is a sequence of one-character strings, so that lower(),   *)
(* strip(), the `in` substring test, re.sub, re.split and str.split are    *)
(* computed character by character, as the interpreter computes them.      *)
(* The topic is only ever compared for equality and tested for emptiness,  *)
(* so it is a plain string.                                                *)
(***************************************************************************)
EXTENDS Integers, Sequences, FiniteSets, TLC

(***************************************************************************)
(* str primitives                                                          *)
(***************************************************************************)
SetMin(S) == CHOOSE x \in S : \A y \in S : x <= y
SetMax(S) == CHOOSE x \in S : \A y \in S : x >= y

\* the value of a singleton set: binds the value each assignment computes
The(S) == CHOOSE x \in S : TRUE

\* the characters str.strip() and the regex class \s treat as whitespace
Whitespace == {" ", "\n", "\t"}
\* the regex class \d
Digits == {"0", "1", "2", "3", "4", "5", "6", "7", "8", "9"}

UpperCase ==
    <<"A","B","C","D","E","F","G","H","I","J","K","L","M",
      "N","O","P","Q","R","S","T","U","V","W","X","Y","Z">>
LowerCase ==
    <<"a","b","c","d","e","f","g","h","i","j","k","l","m",
      "n","o","p","q","r","s","t","u","v","w","x","y","z">>

lower_char(c) ==
    IF \E i \in DOMAIN UpperCase : UpperCase[i] = c
    THEN LowerCase[CHOOSE i \in DOMAIN UpperCase : UpperCase[i] = c]
    ELSE c

\* str.lower()
lower(s) == [i \in 1..Len(s) |-> lower_char(s[i])]

\* `word in s`
contains(s, word) ==
    \E i \in 1..(Len(s) - Len(word) + 1) : SubSeq(s, i, i + Len(word) - 1) = word

\* any(word in s for word in words)
any_in(s, words) == \E k \in DOMAIN words : contains(s, words[k])

\* str.strip()
strip(s) ==
    LET keep == {i \in 1..Len(s) : s[i] \notin Whitespace}
    IN  IF keep = {} THEN <<>> ELSE SubSeq(s, SetMin(keep), SetMax(keep))

\* bool(s) for a str
truthy(s) == Len(s) > 0

\* sep.join(parts)
RECURSIVE join(_, _)
join(sep, parts) ==
    IF Len(parts) = 0 THEN <<>>
    ELSE IF Len(parts) = 1 THEN parts[1]
    ELSE parts[1] \o sep \o join(sep, Tail(parts))

\* s.split(".")
RECURSIVE split_on(_, _, _, _)
split_on(s, ch, i, start) ==
    IF i > Len(s) THEN <<SubSeq(s, start, Len(s))>>
    ELSE IF s[i] = ch
         THEN <<SubSeq(s, start, i - 1)>> \o split_on(s, ch, i + 1, i + 1)
         ELSE split_on(s, ch, i + 1, start)

\* the first index >= i of s whose character is not in `class` (Len(s)+1 if none)
RECURSIVE run_end(_, _, _)
run_end(s, i, class) ==
    IF i > Len(s) \/ s[i] \notin class THEN i ELSE run_end(s, i + 1, class)

(***************************************************************************)
(* plot_processing.py                                                      *)
(***************************************************************************)
\* re.sub(r"\[\d+\]", "", text): one left-to-right pass over the text
RECURSIVE sub_citations(_, _)
sub_citations(s, i) ==
    IF i > Len(s) THEN <<>>
    ELSE LET j == run_end(s, i + 1, Digits)
         IN  IF s[i] = "[" /\ j > i + 1 /\ j <= Len(s) /\ s[j] = "]"
             THEN sub_citations(s, j + 1)
             ELSE <<s[i]>> \o sub_citations(s, i + 1)

\* re.sub(r"\s{2,}", " ", text)
RECURSIVE sub_spaces(_, _)
sub_spaces(s, i) ==
    IF i > Len(s) THEN <<>>
    ELSE LET j == run_end(s, i, Whitespace)
         IN  IF j >= i + 2
             THEN <<" ">> \o sub_spaces(s, j)
             ELSE <<s[i]>> \o sub_spaces(s, i + 1)

\* the longest parenthetical the third re.sub removes
ParenMax == 30

\* the first index >= i of s holding the character ch (Len(s)+1 if none)
RECURSIVE find_char(_, _, _)
find_char(s, i, ch) ==
    IF i > Len(s) \/ s[i] = ch THEN i ELSE find_char(s, i + 1, ch)

\* re.sub(r"\([^)]{0,30}\)", "", text)
RECURSIVE sub_parens(_, _)
sub_parens(s, i) ==
    IF i > Len(s) THEN <<>>
    ELSE LET j == find_char(s, i + 1, ")")
         IN  IF s[i] = "(" /\ j <= Len(s) /\ j - i - 1 <= ParenMax
             THEN sub_parens(s, j + 1)
             ELSE <<s[i]>> \o sub_parens(s, i + 1)

clean_plot_text(text) ==
    The({strip(text3) :
            text3 \in {sub_parens(text2, 1) :
                text2 \in {sub_spaces(text1, 1) :
                    text1 \in {sub_citations(text, 1)}}}})

\* re.split(r'(?<=[.!?]) +', text)
RECURSIVE re_split_sentences(_, _, _)
re_split_sentences(s, i, start) ==
    IF i > Len(s) THEN <<SubSeq(s, start, Len(s))>>
    ELSE IF s[i] = " " /\ i > 1 /\ s[i - 1] \in {".", "!", "?"}
         THEN LET j == run_end(s, i, {" "})
              IN  <<SubSeq(s, start, i - 1)>> \o re_split_sentences(s, j, j)
         ELSE re_split_sentences(s, i + 1, start)

\* split_plot_sections cutting at the half instead of at the two thirds
split_plot_sections_halves(text) ==
    The({LET n == Len(sentences)
             cut1 == IF n \div 3 > 1 THEN n \div 3 ELSE 1
         IN  IF n < 4 THEN <<text, <<>>, <<>>>>
             ELSE << strip(join(<<" ">>, SubSeq(sentences, 1, cut1))),
                     strip(join(<<" ">>, SubSeq(sentences, (n \div 3) + 1, n \div 2))),
                     strip(join(<<" ">>, SubSeq(sentences, (n \div 2) + 1, n))) >>
         : sentences \in {re_split_sentences(text, 1, 1)}})

\* (early, mid, late)
split_plot_sections(text) ==
    The({LET n == Len(sentences)
             cut1 == IF n \div 3 > 1 THEN n \div 3 ELSE 1
         IN  IF n < 4 THEN <<text, <<>>, <<>>>>
             ELSE << strip(join(<<" ">>, SubSeq(sentences, 1, cut1))),
                     strip(join(<<" ">>, SubSeq(sentences, (n \div 3) + 1, (2 * n) \div 3))),
                     strip(join(<<" ">>, SubSeq(sentences, ((2 * n) \div 3) + 1, n))) >>
         : sentences \in {re_split_sentences(text, 1, 1)}})

\* twist_markers reduced to the one-word terms the enforcer also scans for
\* twist_markers without "dies"
twist_markers_no_dies ==
    << <<"b","e","t","r","a","y">>,
       <<"t","w","i","s","t">>,
       <<"r","e","v","e","a","l","s">>,
       <<"s","e","c","r","e","t">>,
       <<"d","e","a","t","h">>,
       <<"k","i","l","l","s">>,
       <<"f","i","n","a","l">>,
       <<"e","n","d","i","n","g">>,
       <<"c","o","n","f","r","o","n","t","s">> >>

twist_markers_scanned ==
    << <<"b","e","t","r","a","y">>,
       <<"t","w","i","s","t">>,
       <<"r","e","v","e","a","l","s">>,
       <<"d","i","e","s">>,
       <<"d","e","a","t","h">>,
       <<"k","i","l","l","s">>,
       <<"e","n","d","i","n","g">> >>

twist_markers ==
    << <<"b","e","t","r","a","y">>,
       <<"t","w","i","s","t">>,
       <<"r","e","v","e","a","l","s">>,
       <<"s","e","c","r","e","t">>,
       <<"d","i","e","s">>,
       <<"d","e","a","t","h">>,
       <<"k","i","l","l","s">>,
       <<"f","i","n","a","l">>,
       <<"e","n","d","i","n","g">>,
       <<"c","o","n","f","r","o","n","t","s">> >>

\* safe_mid_sentences without the test of the twist markers
RECURSIVE all_mid_sentences(_)
all_mid_sentences(pieces) ==
    IF Len(pieces) = 0 THEN <<>>
    ELSE IF ~truthy(strip(pieces[1]))
         THEN all_mid_sentences(Tail(pieces))
         ELSE <<strip(pieces[1])>> \o all_mid_sentences(Tail(pieces))

\* the loop over mid.split("."): the stripped sentences that are kept
RECURSIVE safe_mid_sentences(_)
safe_mid_sentences(pieces) ==
    IF Len(pieces) = 0 THEN <<>>
    ELSE LET sentence == pieces[1]
         IN  The({IF ~truthy(s) \/ any_in(s, twist_markers)
                  THEN safe_mid_sentences(Tail(pieces))
                  ELSE <<strip(sentence)>> \o safe_mid_sentences(Tail(pieces))
                  : s \in {lower(strip(sentence))}})

\* the end of extract_spoiler_free, from line 75 on
keep_early_and_safe(early, safe) ==
    LET first2 == SubSeq(safe, 1, IF Len(safe) < 2 THEN Len(safe) ELSE 2)
    IN  The({LET final_text == IF truthy(safe_mid) THEN early \o <<" ">> \o safe_mid
                               ELSE early
             IN  strip(final_text)
             : safe_mid \in {strip(join(<<".", " ">>, first2))}})

extract_spoiler_free(text0) ==
    The({LET early == parts[1]
             mid == parts[2]
         IN  The({keep_early_and_safe(early, safe)
                  : safe \in {safe_mid_sentences(pieces)
                              : pieces \in {split_on(mid, ".", 1, 1)}}})
         : parts \in {split_plot_sections(text) : text \in {clean_plot_text(text0)}}})

(***************************************************************************)
(* main.py: the Response record and enforce_output_rules                   *)
(***************************************************************************)
\* Response.__fields__: the declared fields of the pydantic model
allowed_fields ==
    {"summary", "spoilers", "no_spoilers", "game_tips", "lore", "warning",
     "rawg_data", "game_length", "wiki_data", "can_be_spoiler", "topic"}

\* Response(): every field at its declared default
default_response ==
    [summary |-> <<>>, spoilers |-> <<>>, no_spoilers |-> <<>>, game_tips |-> <<>>,
     lore |-> <<>>, warning |-> <<>>, rawg_data |-> <<>>, game_length |-> <<>>,
     wiki_data |-> <<>>, can_be_spoiler |-> FALSE, topic |-> ""]

length_keywords ==
    << <<"l","o","n","g">>,
       <<"s","h","o","r","t">>,
       <<"h","o","u","r","s">>,
       <<"t","i","m","e"," ","t","o"," ","b","e","a","t">>,
       <<"h","o","w"," ","l","o","n","g">>,
       <<"l","e","n","g","t","h">> >>
metadata_keywords ==
    << <<"r","e","l","e","a","s","e">>,
       <<"p","l","a","t","f","o","r","m">>,
       <<"d","e","v","e","l","o","p","e","r">>,
       <<"e","n","g","i","n","e">>,
       <<"r","a","t","i","n","g">>,
       <<"m","e","t","a","c","r","i","t","i","c">> >>
tips_keywords ==
    << <<"h","o","w"," ","t","o">>,
       <<"b","e","a","t">>,
       <<"s","o","l","v","e">>,
       <<"p","u","z","z","l","e">>,
       <<"t","i","p","s">>,
       <<"g","u","i","d","e">> >>
kw_character == <<"c","h","a","r","a","c","t","e","r">>
kw_lore == <<"l","o","r","e">>
kw_world == <<"w","o","r","l","d">>
kw_dlc == <<"d","l","c">>
kw_expansion == <<"e","x","p","a","n","s","i","o","n">>
kw_ending == <<"e","n","d","i","n","g">>
kw_spoil == <<"s","p","o","i","l">>
kw_story == <<"s","t","o","r","y">>
kw_plot == <<"p","l","o","t">>
kw_gameplay == <<"g","a","m","e","p","l","a","y">>
kw_mechanic == <<"m","e","c","h","a","n","i","c">>
kw_combat == <<"c","o","m","b","a","t">>
spoiler_trigger_words ==
    << <<"k","i","l","l","s">>,
       <<"d","i","e","s">>,
       <<"d","e","a","t","h">>,
       <<"b","e","t","r","a","y">>,
       <<"t","w","i","s","t">>,
       <<"e","n","d","i","n","g">>,
       <<"f","i","n","a","l"," ","b","o","s","s">>,
       <<"r","e","v","e","a","l","s">> >>
default_warning ==
    <<"C","o","n","t","a","i","n","s"," ","m","a","j","o","r"," ","s","p","o","i","l","e","r",
      "s">>

\* "Detect length interest": runs before the topic detection
detect_length_interest(parsed, user_query) ==
    IF (\E uq \in {lower(user_query)} : any_in(uq, length_keywords))
       /\ parsed.topic \in {"", "summary"}
    THEN [parsed EXCEPT !.topic = "metadata"]
    ELSE parsed

\* classify with the story/plot branch tested before the dlc branch
classify_plot_first(uq) ==
    IF any_in(uq, metadata_keywords) THEN "metadata"
    ELSE IF contains(uq, kw_character) THEN "characters"
    ELSE IF contains(uq, kw_lore) \/ contains(uq, kw_world) THEN "lore"
    ELSE IF contains(uq, kw_story) \/ contains(uq, kw_plot) THEN "plot"
    ELSE IF contains(uq, kw_dlc) \/ contains(uq, kw_expansion) THEN "dlc"
    ELSE IF contains(uq, kw_ending) \/ contains(uq, kw_spoil) THEN "spoilers"
    ELSE IF contains(uq, kw_gameplay) \/ contains(uq, kw_mechanic) \/ contains(uq, kw_combat)
         THEN "gameplay"
    ELSE IF any_in(uq, tips_keywords) THEN "tips"
    ELSE ""

\* the if/elif chain of step 1 over uq = user_query.lower(); "" when no branch is taken
classify(uq) ==
    IF any_in(uq, metadata_keywords) THEN "metadata"
    ELSE IF contains(uq, kw_character) THEN "characters"
    ELSE IF contains(uq, kw_lore) \/ contains(uq, kw_world) THEN "lore"
    ELSE IF contains(uq, kw_dlc) \/ contains(uq, kw_expansion) THEN "dlc"
    ELSE IF contains(uq, kw_ending) \/ contains(uq, kw_spoil) THEN "spoilers"
    ELSE IF contains(uq, kw_story) \/ contains(uq, kw_plot) THEN "plot"
    ELSE IF contains(uq, kw_gameplay) \/ contains(uq, kw_mechanic) \/ contains(uq, kw_combat)
         THEN "gameplay"
    ELSE IF any_in(uq, tips_keywords) THEN "tips"
    ELSE ""

\* detect_topic without the test of the topic the record carries
detect_topic_always(parsed, user_query) ==
    [parsed EXCEPT !.topic = The({classify(uq) : uq \in {lower(user_query)}})]

\* step 1, "Auto-soft Topic Detection if missing"
detect_topic(parsed, user_query) ==
    IF parsed.topic = ""
    THEN [parsed EXCEPT !.topic = The({classify(uq) : uq \in {lower(user_query)}})]
    ELSE parsed

\* prevent_leakage without the scan for trigger words
prevent_leakage_unscanned(parsed) ==
    IF truthy(parsed.no_spoilers)
    THEN [parsed EXCEPT
            !.spoilers = strip(parsed.spoilers \o <<"\n">> \o parsed.no_spoilers),
            !.no_spoilers = <<>>,
            !.warning = IF truthy(parsed.warning) THEN parsed.warning ELSE default_warning]
    ELSE parsed

\* prevent_leakage overwriting spoilers with the moved text instead of appending it
prevent_leakage_overwrite(parsed) ==
    IF truthy(parsed.no_spoilers)
       /\ \E text \in {lower(parsed.no_spoilers)} : any_in(text, spoiler_trigger_words)
    THEN [parsed EXCEPT
            !.spoilers = strip(parsed.no_spoilers),
            !.no_spoilers = <<>>,
            !.warning = IF truthy(parsed.warning) THEN parsed.warning ELSE default_warning]
    ELSE parsed

\* step 2, "Prevent spoiler leakage into no_spoilers"
prevent_leakage(parsed) ==
    IF truthy(parsed.no_spoilers)
       /\ \E text \in {lower(parsed.no_spoilers)} : any_in(text, spoiler_trigger_words)
    THEN [parsed EXCEPT
            !.spoilers = strip(parsed.spoilers \o <<"\n">> \o parsed.no_spoilers),
            !.no_spoilers = <<>>,
            !.warning = IF truthy(parsed.warning) THEN parsed.warning ELSE default_warning]
    ELSE parsed

\* add_warning without the test of spoilers
add_warning_always(parsed) ==
    IF ~truthy(parsed.warning)
    THEN [parsed EXCEPT !.warning = default_warning]
    ELSE parsed

\* add_warning for the topic spoilers only
add_warning_on_request(parsed) ==
    IF truthy(parsed.spoilers) /\ ~truthy(parsed.warning) /\ parsed.topic = "spoilers"
    THEN [parsed EXCEPT !.warning = default_warning]
    ELSE parsed

\* add_warning without its assignment
add_warning_skipped(parsed) == parsed

\* step 3, "If spoilers exist but no warning, auto-add warning"
add_warning(parsed) ==
    IF truthy(parsed.spoilers) /\ ~truthy(parsed.warning)
    THEN [parsed EXCEPT !.warning = default_warning]
    ELSE parsed

\* refilter_plot without the test of the topic
refilter_any_topic(parsed) ==
    IF truthy(parsed.no_spoilers)
    THEN [parsed EXCEPT !.no_spoilers = extract_spoiler_free(parsed.no_spoilers)]
    ELSE parsed

\* step 4, "re-filter no_spoilers if plot topic"
refilter_plot(parsed) ==
    IF parsed.topic = "plot" /\ truthy(parsed.no_spoilers)
    THEN [parsed EXCEPT !.no_spoilers = extract_spoiler_free(parsed.no_spoilers)]
    ELSE parsed

\* remove_accidental_fields without the del
keep_all_fields(parsed) == parsed

\* step 5, "Remove accidental fields or hallucinated content"
remove_accidental_fields(parsed) ==
    [field \in (DOMAIN parsed) \cap allowed_fields |-> parsed[field]]

\* enforce_output_rules with the length-interest test after the topic detection
enforce_output_rules_classify_first(parsed, user_query) ==
    remove_accidental_fields(
        refilter_plot(
            add_warning(
                prevent_leakage(
                    detect_length_interest(detect_topic(parsed, user_query), user_query)))))

enforce_output_rules(parsed, user_query) ==
    remove_accidental_fields(
        refilter_plot(
            add_warning(
                prevent_leakage(
                    detect_topic(detect_length_interest(parsed, user_query),
                                 user_query)))))

(***************************************************************************)
(* response_formatter.py                                                   *)
(***************************************************************************)
label_plot == <<"*","*","P","l","o","t",":","*","*","\n">>
label_full == <<"*","*","F","u","l","l"," ","P","l","o","t",":","*","*","\n">>
label_lore == <<"*","*","L","o","r","e",":","*","*","\n">>
label_tips == <<"*","*","T","i","p","s",":","*","*","\n">>
label_wiki == <<"*","*","F","r","o","m"," ","W","i","k","i",":","*","*","\n">>
label_info == <<"*","*","I","n","f","o",":","*","*"," ">>
bold == <<"*","*">>

\* one lines.append(...): the text appended, tagged with the statement that appended it
Block(kind, text) == <<[kind |-> kind, text |-> text]>>
When(cond, blocks) == IF cond THEN blocks ELSE <<>>

\* format_lines with the warning appended after the Full Plot block
format_lines_warning_after(data) ==
    When(data.topic = "metadata",
         When(truthy(data.rawg_data), Block("rawg_top", strip(data.rawg_data)))
         \o When(truthy(data.game_length), Block("length_top", strip(data.game_length))))
    \o When(truthy(data.summary), Block("summary", strip(data.summary)))
    \o When(truthy(data.no_spoilers),
             Block("no_spoilers", label_plot \o strip(data.no_spoilers)))
    \o When(truthy(data.spoilers),
             Block("spoilers", label_full \o strip(data.spoilers))
             \o When(truthy(data.warning), Block("warning", bold \o data.warning \o bold)))
    \o When(truthy(data.lore), Block("lore", label_lore \o strip(data.lore)))
    \o When(truthy(data.game_tips), Block("game_tips", label_tips \o strip(data.game_tips)))
    \o When(truthy(data.wiki_data) /\ data.topic \notin {"plot", "spoilers"},
             Block("wiki_data", label_wiki \o strip(data.wiki_data)))
    \o When(data.topic # "metadata",
             When(truthy(data.rawg_data), Block("rawg_info", label_info \o strip(data.rawg_data)))
             \o When(truthy(data.game_length) /\ data.topic \notin {"plot", "spoilers"},
                      Block("length_bottom", strip(data.game_length))))

\* format_lines with the From Wiki block appended under every topic
format_lines_wiki_always(data) ==
    When(data.topic = "metadata",
         When(truthy(data.rawg_data), Block("rawg_top", strip(data.rawg_data)))
         \o When(truthy(data.game_length), Block("length_top", strip(data.game_length))))
    \o When(truthy(data.summary), Block("summary", strip(data.summary)))
    \o When(truthy(data.no_spoilers),
             Block("no_spoilers", label_plot \o strip(data.no_spoilers)))
    \o When(truthy(data.spoilers),
             When(truthy(data.warning), Block("warning", bold \o data.warning \o bold))
             \o Block("spoilers", label_full \o strip(data.spoilers)))
    \o When(truthy(data.lore), Block("lore", label_lore \o strip(data.lore)))
    \o When(truthy(data.game_tips), Block("game_tips", label_tips \o strip(data.game_tips)))
    \o When(truthy(data.wiki_data), Block("wiki_data", label_wiki \o strip(data.wiki_data)))
    \o When(data.topic # "metadata",
             When(truthy(data.rawg_data), Block("rawg_info", label_info \o strip(data.rawg_data)))
             \o When(truthy(data.game_length) /\ data.topic \notin {"plot", "spoilers"},
                      Block("length_bottom", strip(data.game_length))))

\* format_lines with the Info block appended under every topic
format_lines_info_always(data) ==
    When(data.topic = "metadata",
         When(truthy(data.rawg_data), Block("rawg_top", strip(data.rawg_data)))
         \o When(truthy(data.game_length), Block("length_top", strip(data.game_length))))
    \o When(truthy(data.summary), Block("summary", strip(data.summary)))
    \o When(truthy(data.no_spoilers),
             Block("no_spoilers", label_plot \o strip(data.no_spoilers)))
    \o When(truthy(data.spoilers),
             When(truthy(data.warning), Block("warning", bold \o data.warning \o bold))
             \o Block("spoilers", label_full \o strip(data.spoilers)))
    \o When(truthy(data.lore), Block("lore", label_lore \o strip(data.lore)))
    \o When(truthy(data.game_tips), Block("game_tips", label_tips \o strip(data.game_tips)))
    \o When(truthy(data.wiki_data) /\ data.topic \notin {"plot", "spoilers"},
             Block("wiki_data", label_wiki \o strip(data.wiki_data)))
    \o When(truthy(data.rawg_data), Block("rawg_info", label_info \o strip(data.rawg_data)))
    \o When(data.topic # "metadata",
             When(truthy(data.game_length) /\ data.topic \notin {"plot", "spoilers"},
                  Block("length_bottom", strip(data.game_length))))

\* format_lines with the Tips block appended before the Lore block
format_lines_tips_first(data) ==
    When(data.topic = "metadata",
         When(truthy(data.rawg_data), Block("rawg_top", strip(data.rawg_data)))
         \o When(truthy(data.game_length), Block("length_top", strip(data.game_length))))
    \o When(truthy(data.summary), Block("summary", strip(data.summary)))
    \o When(truthy(data.no_spoilers),
             Block("no_spoilers", label_plot \o strip(data.no_spoilers)))
    \o When(truthy(data.spoilers),
             When(truthy(data.warning), Block("warning", bold \o data.warning \o bold))
             \o Block("spoilers", label_full \o strip(data.spoilers)))
    \o When(truthy(data.game_tips), Block("game_tips", label_tips \o strip(data.game_tips)))
    \o When(truthy(data.lore), Block("lore", label_lore \o strip(data.lore)))
    \o When(truthy(data.wiki_data) /\ data.topic \notin {"plot", "spoilers"},
             Block("wiki_data", label_wiki \o strip(data.wiki_data)))
    \o When(data.topic # "metadata",
             When(truthy(data.rawg_data), Block("rawg_info", label_info \o strip(data.rawg_data)))
             \o When(truthy(data.game_length) /\ data.topic \notin {"plot", "spoilers"},
                      Block("length_bottom", strip(data.game_length))))

\* `lines` as it stands before the final join
format_lines(data) ==
    When(data.topic = "metadata",
         When(truthy(data.rawg_data), Block("rawg_top", strip(data.rawg_data)))
         \o When(truthy(data.game_length), Block("length_top", strip(data.game_length))))
    \o When(truthy(data.summary), Block("summary", strip(data.summary)))
    \o When(truthy(data.no_spoilers),
             Block("no_spoilers", label_plot \o strip(data.no_spoilers)))
    \o When(truthy(data.spoilers),
             When(truthy(data.warning), Block("warning", bold \o data.warning \o bold))
             \o Block("spoilers", label_full \o strip(data.spoilers)))
    \o When(truthy(data.lore), Block("lore", label_lore \o strip(data.lore)))
    \o When(truthy(data.game_tips), Block("game_tips", label_tips \o strip(data.game_tips)))
    \o When(truthy(data.wiki_data) /\ data.topic \notin {"plot", "spoilers"},
             Block("wiki_data", label_wiki \o strip(data.wiki_data)))
    \o When(data.topic # "metadata",
             When(truthy(data.rawg_data), Block("rawg_info", label_info \o strip(data.rawg_data)))
             \o When(truthy(data.game_length) /\ data.topic \notin {"plot", "spoilers"},
                      Block("length_bottom", strip(data.game_length))))

\* [x for x in lines if x.strip()]
RECURSIVE non_blank(_)
non_blank(lines) ==
    IF Len(lines) = 0 THEN <<>>
    ELSE IF truthy(strip(lines[1].text))
         THEN <<lines[1]>> \o non_blank(Tail(lines))
         ELSE non_blank(Tail(lines))

texts(lines) == [i \in 1..Len(lines) |-> lines[i].text]

format_response(data) ==
    strip(join(<<"\n", "\n">>, texts(non_blank(format_lines(data)))))


(***************************************************************************)
(* Inputs: the user's queries and the draft records the parser returns     *)
(***************************************************************************)
q_ending ==
    <<"E","x","p","l","a","i","n"," ","t","h","e"," ","e","n","d","i","n","g"," ","o","f"," ",
      "E","l","d","e","n"," ","R","i","n","g">>
q_released ==
    <<"W","h","e","n"," ","w","a","s"," ","H","a","d","e","s"," ","r","e","l","e","a","s","e",
      "d","?">>
q_combat ==
    <<"H","o","w"," ","d","o","e","s"," ","c","o","m","b","a","t"," ","w","o","r","k","?">>
q_story == <<"T","e","l","l"," ","m","e"," ","t","h","e"," ","s","t","o","r","y">>
q_none == <<"I","s"," ","H","a","d","e","s"," ","f","u","n","?">>
q_how_long ==
    <<"H","o","w"," ","l","o","n","g"," ","i","s"," ","t","h","e"," ","s","t","o","r","y","?">>
q_dlc_story ==
    <<"S","t","o","r","y"," ","o","f"," ","t","h","e"," ","D","L","C"," ","e","x","p","a","n",
      "s","i","o","n">>
q_lore_chars == <<"L","O","R","E"," ","a","n","d"," ","c","h","a","r","a","c","t","e","r","s">>
q_beat ==
    <<"T","i","p","s"," ","t","o"," ","b","e","a","t"," ","t","h","e"," ","f","i","n","a","l",
      " ","b","o","s","s"," ","p","l","o","t">>
q_world_rating == <<"W","o","r","l","d"," ","r","a","t","i","n","g">>
q_gameplay_guide == <<"G","a","m","e","p","l","a","y"," ","g","u","i","d","e">>
q_short == <<"A"," ","s","h","o","r","t"," ","o","n","e">>
q_plot == <<"T","h","e"," ","p","l","o","t">>
q_char_platform ==
    <<"P","l","a","t","f","o","r","m"," ","c","h","a","r","a","c","t","e","r","s">>
q_lore_dlc == <<"D","L","C"," ","l","o","r","e">>
q_spoil_dlc == <<"S","p","o","i","l"," ","t","h","e"," ","D","L","C">>
q_story_ending == <<"S","t","o","r","y"," ","e","n","d","i","n","g">>
q_plot_mechanic == <<"P","l","o","t"," ","m","e","c","h","a","n","i","c">>

q_time_to_beat == <<"T","i","m","e"," ","t","o"," ","b","e","a","t"," ","H","a","d","e","s">>

Queries ==
    {q_ending, q_released, q_combat, q_story, q_none, q_how_long, q_dlc_story,
     q_lore_chars, q_beat, q_world_rating, q_gameplay_guide, q_short, q_plot,
     q_char_platform, q_lore_dlc, q_spoil_dlc, q_story_ending, q_plot_mechanic,
     q_time_to_beat}

t_scenario_a ==
    <<"T","h","e"," ","h","e","r","o"," ","d","e","f","e","a","t","s"," ","t","h","e"," ","f",
      "i","n","a","l"," ","b","o","s","s"," ","a","n","d"," ","d","i","e","s",".">>
t_final_boss ==
    <<"H","e"," ","m","e","e","t","s"," ","t","h","e"," ","f","i","n","a","l"," "," ","b","o",
      "s","s",".">>
t_cited == <<"H","e"," ","d","i","[","1","]","e","s",".">>
t_paren == <<"T","h","e"," ","e","n","d","(","x",")","i","n","g",".">>
t_upper == <<"S","h","e"," ","D","I","E","S",".">>
t_clean == <<"A"," ","q","u","i","e","t"," ","f","a","r","m",".">>
t_blank == <<" ","\n">>
t_padded == <<" ","T","h","e"," ","t","w","i","s","t","."," ">>
s_old == <<"O","l","d"," ","e","n","d",".">>
s_padded == <<" ","O","l","d"," ","e","n","d",".","\n">>
w_custom == <<"B","e","w","a","r","e">>
w_blank == <<" ">>
a_summary == <<"S","u","m">>
a_lore == <<"O","l","d"," ","g","o","d","s">>
a_tips == <<"D","o","d","g","e">>
a_wiki == <<"W","i","k","i">>
a_rawg == <<"R","e","l","e","a","s","e","d",":"," ","2","0","2","0">>
a_length == <<"M","a","i","n",":"," ","2","0","h">>
sp_dies == <<"H","e"," ","d","i","e","s",".">>
sp_secret == <<"A"," ","s","e","c","r","e","t",".">>
sp_betray == <<"T","h","e","y"," ","b","e","t","r","a","y",".">>

\* the longest plot text drawn, in sentences
MaxSentences == 6
\* the most calls of enforce_output_rules made on one record
MaxCalls == 2

\* "Aa.", "Bb.", ...: a sentence with no marker of any list
Sentence(i) == <<UpperCase[i], LowerCase[i], ".">>
SpoilerSentences == {sp_dies, sp_secret, sp_betray}

\* n sentences joined by single spaces, sentence p (if any) replaced by sp
PlotText(n, p, sp) ==
    join(<<" ">>, [i \in 1..n |-> IF i = p THEN sp ELSE Sentence(i)])

PlotTexts ==
    {PlotText(n, 0, <<>>) : n \in 0..MaxSentences}
    \cup UNION {{PlotText(n, p, sp) : p \in 1..n, sp \in SpoilerSentences}
                : n \in 1..MaxSentences}

LeakTexts ==
    {<<>>, t_scenario_a, t_final_boss, t_cited, t_paren, t_upper, t_clean, t_blank, t_padded}

TextFields ==
    {"summary", "spoilers", "no_spoilers", "game_tips", "lore", "warning",
     "rawg_data", "game_length", "wiki_data"}

\* what a provider or the model writes into each field
Filled ==
    [summary |-> a_summary, spoilers |-> s_old, no_spoilers |-> t_clean,
     game_tips |-> a_tips, lore |-> a_lore, warning |-> w_custom,
     rawg_data |-> a_rawg, game_length |-> a_length, wiki_data |-> a_wiki]

Draft(topic, no_spoilers, spoilers, warning) ==
    [default_response EXCEPT !.topic = topic, !.no_spoilers = no_spoilers,
                             !.spoilers = spoilers, !.warning = warning]

\* a record whose __dict__ carries fields the model does not declare
WithExtra(record, names) ==
    [f \in (DOMAIN record) \cup names |-> IF f \in DOMAIN record THEN record[f] ELSE <<"x">>]

\* the fields of `filled` hold their text, those of `blank` whitespace, the others nothing
Composed(topic, filled, blank) ==
    [f \in allowed_fields |->
        IF f = "topic" THEN topic
        ELSE IF f = "can_be_spoiler" THEN topic \in {"plot", "spoilers"}
        ELSE IF f \in blank THEN t_blank
        ELSE IF f \in filled THEN Filled[f]
        ELSE <<>>]

PlotTurns ==
    {<<q_plot, Draft(t, ns, <<>>, <<>>)>> : t \in {"plot", "lore"}, ns \in PlotTexts}

LeakTurns ==
    {<<q, Draft(t, ns, sp, w)>> :
        q \in {q_ending, q_none}, t \in {"", "plot"}, ns \in LeakTexts,
        sp \in {<<>>, s_old, s_padded}, w \in {<<>>, w_custom, w_blank}}

TopicTurns ==
    {<<q, WithExtra(Draft(t, ns, <<>>, <<>>), ex)>> :
        q \in Queries, t \in {"", "summary", "plot", "spoilers", "development"},
        ns \in {<<>>, t_scenario_a}, ex \in {{}, {"debug_trace", "rawg_info"}}}

NarrativeFields == {"no_spoilers", "spoilers", "warning"}

ComposeTurns ==
    {<<q_combat, Composed(t, aux \cup nar, {})>> :
        t \in {"metadata", "plot", "spoilers", "gameplay"},
        aux \in SUBSET (TextFields \ NarrativeFields),
        nar \in {{}, {"no_spoilers"}, {"spoilers"}, NarrativeFields}}

BlankTurns ==
    {<<q_combat, Composed(t, others, {f})>> :
        t \in {"metadata", "plot", "gameplay"}, f \in TextFields,
        others \in {{}, TextFields}}

c_paren_gap == <<"a"," ","(","x",")"," ","b">>
c_nested_cite == <<"[","[","1","]","2","]">>
c_nested_paren == <<"(","(","x",")",")">>
c_paren_newline == <<"A","."," ","(","x",")","\n","B","."," ","C","."," ","D",".">>
c_runs == <<"A",".","\t","\t","B","."," ","\n"," ","C","."," "," ","D",".">>
c_paren_30 ==
    <<"(","y","y","y","y","y","y","y","y","y","y","y","y","y","y","y","y","y","y","y","y","y",
      "y","y","y","y","y","y","y","y","y",")">>
c_paren_31 ==
    <<"(","y","y","y","y","y","y","y","y","y","y","y","y","y","y","y","y","y","y","y","y","y",
      "y","y","y","y","y","y","y","y","y","y",")">>
c_marks == <<"A","a","!"," ","B","b","?"," ","C","c","."," ","D","d","."," ","E","e",".">>
c_abbrev ==
    <<"A","a","."," ","B","b","."," ","M","r","."," ","X"," ","g","o","e","s","!"," ","S","h",
      "e"," ","d","i","e","s","."," ","E","e","."," ","F","f",".">>
c_padded == <<" ","A","a","."," ","B","b","."," ","C","c","."," ","D","d","."," ">>
\* Scenario C: twelve sentences, two of the four mid sentences holding "betray"
c_two_betray ==
    <<"A","a","."," ","B","b","."," ","C","c","."," ","D","d","."," ","E","e","."," ","W","e",
      " ","b","e","t","r","a","y","."," ","G","g","."," ","I"," ","b","e","t","r","a","y",".",
      " ","I","i","."," ","J","j","."," ","K","k","."," ","L","l",".">>

\* texts that exercise the three substitutions of clean_plot_text and the two splits
c_mid_markers ==
    <<"A","a","."," ","B","b","."," ","H","e"," ","d","i","e","s","."," ","A"," ","s","e","c",
      "r","e","t","."," ","E","e","."," ","F","f",".">>
c_mid_final ==
    <<"A","a","."," ","B","b","."," ","T","h","e"," ","f","i","n","a","l"," ","b","o","s","s",
      "."," ","H","e"," ","c","o","n","f","r","o","n","t","s","."," ","E","e","."," ","F","f",
      ".">>

CleanTexts ==
    {c_paren_gap, c_nested_cite, c_nested_paren, c_paren_newline, c_runs,
     c_paren_30, c_paren_31, c_marks, c_abbrev, c_padded,
     c_two_betray,
     c_mid_markers, c_mid_final}

\* the texts extract_spoiler_free is called with
PlotInputs == PlotTexts \cup LeakTexts \cup CleanTexts

\* the turns of the calls that run side by side
ConcurrentTurns ==
    {<<q_ending, Draft("", t_scenario_a, <<>>, <<>>)>>,
     <<q_released, [default_response EXCEPT !.rawg_data = a_rawg]>>,
     <<q_combat, Draft("", <<>>, <<>>, <<>>)>>,
     <<q_plot, Draft("plot", PlotText(6, 3, sp_secret), <<>>, <<>>)>>,
     <<q_none, WithExtra(Composed("", TextFields, {}), {"debug_trace"})>>}

\* Scenario B: only rawg_data is populated and the topic is still unset
scenario_b == <<q_released, [default_response EXCEPT !.rawg_data = a_rawg]>>

\* Scenario D: every field empty under topic gameplay
scenario_d == <<q_combat, Draft("gameplay", <<>>, <<>>, <<>>)>>

\* Scenario C: a plot draft whose no_spoilers has "betray" in its mid section
scenario_c == <<q_plot, Draft("plot", c_two_betray, <<>>, <<>>)>>

ScenarioTurns == {scenario_b, scenario_c, scenario_d}

Turns ==
    PlotTurns \cup LeakTurns \cup TopicTurns \cup ComposeTurns \cup BlankTurns
    \cup ScenarioTurns

(***************************************************************************)
(* One turn: the agent's output is parsed into a Response, passed through  *)
(* enforce_output_rules, rendered by format_response, and discarded.       *)
(***************************************************************************)
\* the most calls running side by side
MaxCallers == 2
Callers == 1..MaxCallers

\* a caller that is not in a call
idle_call ==
    [pc |-> "idle", user_query |-> <<>>, draft |-> default_response,
     parsed |-> default_response, final |-> <<>>]

\* the agent's output res["output"]: the text of a JSON object, or text that is none
Json(object) == [form |-> "json", body |-> object]
Malformed(text) == [form |-> "text", body |-> [raw |-> text]]
no_output == [form |-> "none", body |-> [raw |-> <<>>]]

\* Python's None, and a str
None == [is_none |-> TRUE, text |-> <<>>]
Str(text) == [is_none |-> FALSE, text |-> text]

\* the most entries of chat_history
MaxHistory == 4

\* a duration of a HowLongToBeat entry: None, or a number of hours
no_hours == [is_none |-> TRUE, hours |-> 0]
Hours(n) == [is_none |-> FALSE, hours |-> n]

\* the most entries a search returns
MaxResults == 2

\* the shell between two turns
idle_shell ==
    [path |-> "none", at |-> "idle", message |-> <<>>, output |-> no_output,
     response |-> default_response, error |-> "none", trail |-> <<>>, shown |-> <<>>,
     chat_history |-> <<>>]

\* the tool before a call
idle_hltb == [at |-> "idle", outcome |-> "none", results |-> <<>>, value |-> None, answer |-> None]

VARIABLES
    pc,          \* "idle", "parsed", "enforced", "formatted"
    user_query,  \* the query of the turn
    draft,       \* the record as parser.parse returned it
    parsed,      \* the record, mutated by enforce_output_rules
    returned,    \* the records enforce_output_rules has returned this turn, in call order
    lines,       \* the blocks format_response joins
    final,       \* the text format_response returns
    plot,        \* the argument of a call of extract_spoiler_free
    cleaned,     \* clean_plot_text(plot)
    sections,    \* (early, mid, late) of the cleaned text
    spoiler_free,  \* what extract_spoiler_free returns
    recleaned,   \* clean_plot_text of the cleaned text
    calls,       \* the calls running side by side, each with its own arguments
    shell,       \* the transport shell: the /chat handler or the command-line loop in a turn
    hltb         \* a call of the hltb_lengths tool

\* the locals of a call of extract_spoiler_free
plot_vars == <<plot, cleaned, sections, spoiler_free, recleaned>>

vars == <<pc, user_query, draft, parsed, returned, lines, final, plot_vars, calls, shell, hltb>>

Init ==
    /\ pc = "idle"
    /\ user_query = <<>>
    /\ draft = default_response
    /\ parsed = default_response
    /\ returned = <<>>
    /\ lines = <<>>
    /\ final = <<>>
    /\ plot = <<>>
    /\ cleaned = <<>>
    /\ sections = <<<<>>, <<>>, <<>>>>
    /\ spoiler_free = <<>>
    /\ recleaned = <<>>
    /\ calls = [c \in Callers |-> idle_call]
    /\ shell = idle_shell
    /\ hltb = idle_hltb

\* res = agent_executor.ainvoke(...); parsed = parser.parse(res["output"])
AgentReply ==
    /\ pc = "idle"
    /\ \E turn \in Turns :
        /\ user_query' = turn[1]
        /\ draft' = turn[2]
        /\ parsed' = turn[2]
    /\ pc' = "parsed"
    /\ UNCHANGED <<returned, lines, final, plot_vars, calls, shell, hltb>>

\* parsed = enforce_output_rules(parsed, query)
Enforce ==
    /\ pc \in {"parsed", "enforced"}
    /\ Len(returned) < MaxCalls
    /\ parsed' = enforce_output_rules(parsed, user_query)
    /\ returned' = Append(returned, parsed')
    /\ pc' = "enforced"
    /\ UNCHANGED <<user_query, draft, lines, final, plot_vars, calls, shell, hltb>>

\* format_response(parsed)
Format ==
    /\ pc \in {"parsed", "enforced"}
    /\ lines' = non_blank(format_lines(parsed))
    /\ final' = format_response(parsed)
    /\ pc' = "formatted"
    /\ UNCHANGED <<user_query, draft, parsed, returned, plot_vars, calls, shell, hltb>>

\* the record is dropped at the end of the turn
Discard ==
    /\ pc = "formatted"
    /\ pc' = "idle"
    /\ user_query' = <<>>
    /\ draft' = default_response
    /\ parsed' = default_response
    /\ returned' = <<>>
    /\ lines' = <<>>
    /\ final' = <<>>
    /\ UNCHANGED <<plot_vars, calls, shell, hltb>>

Next == AgentReply \/ Enforce \/ Format \/ Discard

Spec == Init /\ [][Next]_vars


(***************************************************************************)
(* One call of enforce_output_rules, statement block by statement block:   *)
(* pc is the place the call has reached in the body of the function.       *)
(***************************************************************************)
\* enforce_output_rules is entered with the record of the turn
Receive ==
    /\ pc \in {"parsed", "Done"}
    /\ Len(returned) < MaxCalls
    /\ pc' = "Received"
    /\ UNCHANGED <<user_query, draft, parsed, returned, lines, final, plot_vars, calls, shell, hltb>>

\* "Detect length interest" and step 1
ResolveTopic ==
    /\ pc = "Received"
    /\ parsed' = detect_topic(detect_length_interest(parsed, user_query), user_query)
    /\ pc' = "TopicResolved"
    /\ UNCHANGED <<user_query, draft, returned, lines, final, plot_vars, calls, shell, hltb>>

\* MakeSpoilerSafe waiting for a non-empty no_spoilers
MakeSpoilerSafe_waiting ==
    /\ pc = "TopicResolved"
    /\ truthy(parsed.no_spoilers)
    /\ parsed' = add_warning(prevent_leakage(parsed))
    /\ pc' = "SpoilerSafe"
    /\ UNCHANGED <<user_query, draft, returned, lines, final, plot_vars, calls, shell, hltb>>

\* steps 2 and 3
MakeSpoilerSafe ==
    /\ pc = "TopicResolved"
    /\ parsed' = add_warning(prevent_leakage(parsed))
    /\ pc' = "SpoilerSafe"
    /\ UNCHANGED <<user_query, draft, returned, lines, final, plot_vars, calls, shell, hltb>>

\* step 4
Refilter ==
    /\ pc = "SpoilerSafe"
    /\ parsed' = refilter_plot(parsed)
    /\ pc' = "Hygienic"
    /\ UNCHANGED <<user_query, draft, returned, lines, final, plot_vars, calls, shell, hltb>>

\* step 5 and `return parsed`
DropFields ==
    /\ pc = "Hygienic"
    /\ parsed' = remove_accidental_fields(parsed)
    /\ returned' = Append(returned, parsed')
    /\ pc' = "Done"
    /\ UNCHANGED <<user_query, draft, lines, final, plot_vars, calls, shell, hltb>>

\* run_agent returns the record; nothing of the turn is kept
Return ==
    /\ pc = "Done"
    /\ pc' = "idle"
    /\ user_query' = <<>>
    /\ draft' = default_response
    /\ parsed' = default_response
    /\ returned' = <<>>
    /\ UNCHANGED <<lines, final, plot_vars, calls, shell, hltb>>

PipelineNext ==
    AgentReply \/ Receive \/ ResolveTopic \/ MakeSpoilerSafe \/ Refilter \/ DropFields
    \/ Return

\* a call that has been entered runs its statements to the return: the body has no
\* loop over anything but finite lists and waits for nothing
PipelineSpec ==
    /\ Init
    /\ [][PipelineNext]_vars
    /\ WF_vars(ResolveTopic \/ MakeSpoilerSafe \/ Refilter \/ DropFields)

(***************************************************************************)
(* One call of extract_spoiler_free, statement by statement, followed by   *)
(* a further cleaning of the cleaned text.                                 *)
(***************************************************************************)
\* extract_spoiler_free(text) is entered
CallExtract ==
    /\ pc = "idle"
    /\ plot' \in PlotInputs
    /\ pc' = "called"
    /\ UNCHANGED <<user_query, draft, parsed, returned, lines, final, calls,
                   cleaned, sections, spoiler_free, recleaned, shell, hltb>>

\* text = clean_plot_text(text)
Clean ==
    /\ pc = "called"
    /\ cleaned' = clean_plot_text(plot)
    /\ pc' = "cleaned"
    /\ UNCHANGED <<user_query, draft, parsed, returned, lines, final, calls,
                   plot, sections, spoiler_free, recleaned, shell, hltb>>

\* early, mid, _late = split_plot_sections(text)
Split ==
    /\ pc = "cleaned"
    /\ sections' = split_plot_sections(cleaned)
    /\ pc' = "split"
    /\ UNCHANGED <<user_query, draft, parsed, returned, lines, final, calls,
                   plot, cleaned, spoiler_free, recleaned, shell, hltb>>

\* the loop over mid.split("."), the join of the first two and the return
KeepSafe ==
    /\ pc = "split"
    /\ spoiler_free' =
        keep_early_and_safe(sections[1],
                            safe_mid_sentences(split_on(sections[2], ".", 1, 1)))
    /\ pc' = "filtered"
    /\ UNCHANGED <<user_query, draft, parsed, returned, lines, final, calls,
                   plot, cleaned, sections, recleaned, shell, hltb>>

\* clean_plot_text applied to a text it has returned
Reclean ==
    /\ pc = "filtered"
    /\ recleaned' = clean_plot_text(cleaned)
    /\ pc' = "recleaned"
    /\ UNCHANGED <<user_query, draft, parsed, returned, lines, final, calls,
                   plot, cleaned, sections, spoiler_free, shell, hltb>>

\* the locals are dropped
ReturnPlot ==
    /\ pc = "recleaned"
    /\ pc' = "idle"
    /\ plot' = <<>>
    /\ cleaned' = <<>>
    /\ sections' = <<<<>>, <<>>, <<>>>>
    /\ spoiler_free' = <<>>
    /\ recleaned' = <<>>
    /\ UNCHANGED <<user_query, draft, parsed, returned, lines, final, calls, shell, hltb>>

PlotNext == CallExtract \/ Clean \/ Split \/ KeepSafe \/ Reclean \/ ReturnPlot

PlotSpec == Init /\ [][PlotNext]_vars

(***************************************************************************)
(* Several callers, each running enforce_output_rules and format_response  *)
(* on its own record; their statement blocks interleave in any order.      *)
(***************************************************************************)
\* the query a call reads: that of caller 1
query_of_first(c) == calls[1].user_query

\* the query a call reads: its own argument user_query
query_read_by(c) == calls[c].user_query

\* call c goes on with the record `record`, at the place `place`
Advance(c, place, record) ==
    /\ calls' = [calls EXCEPT ![c].pc = place, ![c].parsed = record]
    /\ UNCHANGED <<pc, user_query, draft, parsed, returned, lines, final, plot_vars, shell, hltb>>

\* caller c enters enforce_output_rules with its own record and query
Begin(c) ==
    /\ calls[c].pc = "idle"
    /\ \E turn \in ConcurrentTurns :
        calls' = [calls EXCEPT ![c] =
                    [pc |-> "Received", user_query |-> turn[1], draft |-> turn[2],
                     parsed |-> turn[2], final |-> <<>>]]
    /\ UNCHANGED <<pc, user_query, draft, parsed, returned, lines, final, plot_vars, shell, hltb>>

CallResolveTopic(c) ==
    /\ calls[c].pc = "Received"
    /\ Advance(c, "TopicResolved",
               detect_topic(detect_length_interest(calls[c].parsed, query_read_by(c)),
                            query_read_by(c)))

CallMakeSpoilerSafe(c) ==
    /\ calls[c].pc = "TopicResolved"
    /\ Advance(c, "SpoilerSafe", add_warning(prevent_leakage(calls[c].parsed)))

CallRefilter(c) ==
    /\ calls[c].pc = "SpoilerSafe"
    /\ Advance(c, "Hygienic", refilter_plot(calls[c].parsed))

CallDropFields(c) ==
    /\ calls[c].pc = "Hygienic"
    /\ Advance(c, "Done", remove_accidental_fields(calls[c].parsed))

\* format_response on the record the call's enforce_output_rules returned
CallFormat(c) ==
    /\ calls[c].pc = "Done"
    /\ calls' = [calls EXCEPT ![c].pc = "formatted",
                              ![c].final = format_response(calls[c].parsed)]
    /\ UNCHANGED <<pc, user_query, draft, parsed, returned, lines, final, plot_vars, shell, hltb>>

\* the caller has its text; its record is dropped
Finish(c) ==
    /\ calls[c].pc = "formatted"
    /\ calls' = [calls EXCEPT ![c] = idle_call]
    /\ UNCHANGED <<pc, user_query, draft, parsed, returned, lines, final, plot_vars, shell, hltb>>

ConcurrentNext ==
    \E c \in Callers :
        \/ Begin(c)
        \/ CallResolveTopic(c)
        \/ CallMakeSpoilerSafe(c)
        \/ CallRefilter(c)
        \/ CallDropFields(c)
        \/ CallFormat(c)
        \/ Finish(c)

ConcurrentSpec == Init /\ [][ConcurrentNext]_vars

(***************************************************************************)
(* The transport shell: api.py (the /chat handler) and cli.py (the         *)
(* interactive loop).  What reaches the user is `shown`, one item for each *)
(* text returned or printed: a text the shell built, str(e) of the         *)
(* exception it caught, or res["output"] as the agent wrote it.            *)
(***************************************************************************)
Shown(kind, label, text) == [kind |-> kind, label |-> label, text |-> text]

\* parser.parse succeeds on the text of a JSON object
parses(output) == output.form = "json"

\* Response(**object): the declared fields, each from the object or at its default
parser_parse(output) ==
    [f \in allowed_fields |->
        IF f \in DOMAIN output.body THEN output.body[f] ELSE default_response[f]]

\* the object the model writes for a record: the fields that differ from their defaults
Sparse(record) ==
    [f \in {g \in DOMAIN record : g \notin allowed_fields \/ record[g] # default_response[g]}
        |-> record[f]]

spoilers_prefix == <<"U+26A0","U+FE0F"," ","S","P","O","I","L","E","R","S",":"," ">>
m_not_json ==
    <<"S","o","r","r","y",","," ","I"," ","c","a","n","n","o","t"," ","h","e","l","p",".">>
m_broken_json == <<"{","\"","s","u","m","m","a","r","y","\"",":"," ","\"","H","a","d","e","s">>
q_exit == <<"E","x","i","t">>
q_quit == <<"q","u","i","t">>
q_spaces == <<" "," ">>
exit_word == <<"e","x","i","t">>
quit_word == <<"q","u","i","t">>
goodbye ==
    <<"G","G","!"," ","S","e","e"," ","y","o","u"," ","n","e","x","t"," ","t","i","m","e",".">>

\* what a request or a typed line can be paired with: (message, res["output"])
ShellInputs ==
    {<<turn[1], Json(turn[2])>> : turn \in Turns}
    \cup {<<turn[1], Json(Sparse(turn[2]))>> : turn \in ScenarioTurns \cup LeakTurns}
    \cup {<<q, Malformed(t)>> : q \in {q_ending, q_none}, t \in {m_not_json, m_broken_json}}

\* the lines typed at the prompt
CliQueries == {in[1] : in \in ShellInputs} \cup {q_exit, q_quit, <<>>, q_spaces}

\* f"{field}\n\n" if the field is non-empty
paragraph(prefix, field) ==
    IF truthy(field) THEN prefix \o field \o <<"\n", "\n">> ELSE <<>>

\* api.py: the response text the handler assembles
chat_response(record) ==
    strip(paragraph(<<>>, record.rawg_data) \o paragraph(<<>>, record.summary)
          \o paragraph(<<>>, record.no_spoilers)
          \o (IF truthy(record.spoilers)
              THEN paragraph(spoilers_prefix, record.spoilers) ELSE <<>>)
          \o paragraph(<<>>, record.lore) \o paragraph(<<>>, record.game_tips))

\* res = await agent_executor.ainvoke(...), or the exception it raises
ChatInvoke ==
    /\ shell.at = "idle"
    /\ shell.path = "none"
    /\ \/ \E in \in ShellInputs :
            shell' = [shell EXCEPT !.path = "chat", !.at = "invoked",
                                   !.message = in[1], !.output = in[2]]
       \/ \E in \in ShellInputs :
            shell' = [shell EXCEPT !.path = "chat", !.at = "failed",
                                   !.message = in[1], !.error = "Exception"]
    /\ UNCHANGED <<pc, user_query, draft, parsed, returned, lines, final, plot_vars, calls, hltb>>

\* parsed = parser.parse(res["output"])
ChatParse ==
    /\ shell.path = "chat"
    /\ shell.at = "invoked"
    /\ shell' = IF parses(shell.output)
                THEN [shell EXCEPT !.at = "parsed", !.response = parser_parse(shell.output)]
                ELSE [shell EXCEPT !.at = "failed", !.error = "OutputParserException"]
    /\ UNCHANGED <<pc, user_query, draft, parsed, returned, lines, final, plot_vars, calls, hltb>>

\* parsed = enforce_output_rules(parsed, req.message)
ChatEnforce ==
    /\ shell.path = "chat"
    /\ shell.at = "parsed"
    /\ shell' = [shell EXCEPT !.at = "enforced",
                              !.response = enforce_output_rules(shell.response, shell.message),
                              !.trail = Append(shell.trail, "enforce_output_rules")]
    /\ UNCHANGED <<pc, user_query, draft, parsed, returned, lines, final, plot_vars, calls, hltb>>

\* return ChatResponse(response=final_response.strip())
ChatRespond ==
    /\ shell.path = "chat"
    /\ shell.at = "enforced"
    /\ shell' = [shell EXCEPT !.at = "answered",
                              !.shown = <<Shown("text", "", chat_response(shell.response))>>]
    /\ UNCHANGED <<pc, user_query, draft, parsed, returned, lines, final, plot_vars, calls, hltb>>

\* except Exception as e: return ChatResponse(response=f"Error: {str(e)}")
ChatError ==
    /\ shell.path = "chat"
    /\ shell.at = "failed"
    /\ shell' = [shell EXCEPT !.at = "answered", !.shown = <<Shown("error", "Error: ", <<>>)>>]
    /\ UNCHANGED <<pc, user_query, draft, parsed, returned, lines, final, plot_vars, calls, hltb>>

\* the handler has returned
ChatDone ==
    /\ shell.path = "chat"
    /\ shell.at = "answered"
    /\ shell' = idle_shell
    /\ UNCHANGED <<pc, user_query, draft, parsed, returned, lines, final, plot_vars, calls, hltb>>

\* query = input(...); exit and quit leave the loop, a blank line is skipped
CliRead ==
    /\ shell.at = "idle"
    /\ shell.path \in {"none", "cli"}
    /\ Len(shell.chat_history) + 2 <= MaxHistory
    /\ \E query \in CliQueries :
        shell' = IF lower(query) \in {exit_word, quit_word}
                 THEN [shell EXCEPT !.path = "cli", !.at = "ended",
                                    !.shown = <<Shown("text", "", goodbye)>>]
                 ELSE IF strip(query) = <<>>
                 THEN [shell EXCEPT !.path = "cli"]
                 ELSE [shell EXCEPT !.path = "cli", !.at = "read", !.message = query,
                                    !.shown = <<>>]
    /\ UNCHANGED <<pc, user_query, draft, parsed, returned, lines, final, plot_vars, calls, hltb>>

\* res = agent_executor.invoke(...); chat_history.append(f"Human: {query}")
CliInvoke ==
    /\ shell.path = "cli"
    /\ shell.at = "read"
    /\ \/ \E in \in {i \in ShellInputs : i[1] = shell.message} :
            shell' = [shell EXCEPT !.at = "invoked", !.output = in[2],
                                   !.chat_history = Append(shell.chat_history, "Human")]
       \/ shell' = [shell EXCEPT !.at = "crashed", !.error = "Exception"]
    /\ UNCHANGED <<pc, user_query, draft, parsed, returned, lines, final, plot_vars, calls, hltb>>

\* response = parser.parse(res["output"])
CliParse ==
    /\ shell.path = "cli"
    /\ shell.at = "invoked"
    /\ shell' = IF parses(shell.output)
                THEN [shell EXCEPT !.at = "parsed", !.response = parser_parse(shell.output)]
                ELSE [shell EXCEPT !.at = "failed", !.error = "OutputParserException"]
    /\ UNCHANGED <<pc, user_query, draft, parsed, returned, lines, final, plot_vars, calls, hltb>>

\* print(f"Label: {field}\n") if the field is non-empty
printed(label, field, end) ==
    IF truthy(field) THEN <<Shown("text", label, field \o end)>> ELSE <<>>

\* cli.py lines 32-48: the prints after the read of response.rawg_info
cli_prints(response) ==
    printed("Real-time Data:\n", response.rawg_info, <<>>)
    \o printed("Summary: ", response.summary, <<"\n">>)
    \o printed("Spoiler-Free: ", response.no_spoilers, <<"\n">>)
    \o printed("SPOILER ALERT: ", response.spoilers, <<"\n">>)
    \o printed(" ", response.warning, <<"\n">>)
    \o printed("Lore: ", response.lore, <<"\n">>)
    \o printed("Tips/Codes: ", response.game_tips, <<"\n">>)

\* the body of the try after the parse: the header, then response.rawg_info is read
CliShow ==
    /\ shell.path = "cli"
    /\ shell.at = "parsed"
    /\ shell' =
        IF "rawg_info" \in DOMAIN shell.response
        THEN [shell EXCEPT !.at = "answered",
                 !.shown = <<Shown("text", "", <<"\n">>), Shown("text", "Gaming Assistant:", <<>>)>>
                           \o cli_prints(shell.response),
                 !.chat_history = Append(shell.chat_history, "AI")]
        ELSE [shell EXCEPT !.at = "failed", !.error = "AttributeError",
                 !.shown = <<Shown("text", "Gaming Assistant:", <<>>)>>]
    /\ UNCHANGED <<pc, user_query, draft, parsed, returned, lines, final, plot_vars, calls, hltb>>

\* except Exception as e: the error and the raw output are printed
CliFallback ==
    /\ shell.path = "cli"
    /\ shell.at = "failed"
    /\ shell' = [shell EXCEPT !.at = "answered",
                    !.shown = shell.shown \o <<Shown("error", "Error parsing response:", <<>>),
                                               Shown("output", "Raw response:", <<>>)>>,
                    !.chat_history = Append(shell.chat_history, "AI")]
    /\ UNCHANGED <<pc, user_query, draft, parsed, returned, lines, final, plot_vars, calls, hltb>>

\* back to the top of the while loop; chat_history is kept
CliLoop ==
    /\ shell.path = "cli"
    /\ shell.at = "answered"
    /\ shell' = [idle_shell EXCEPT !.path = "cli", !.chat_history = shell.chat_history]
    /\ UNCHANGED <<pc, user_query, draft, parsed, returned, lines, final, plot_vars, calls, hltb>>

ShellNext ==
    \/ ChatInvoke
    \/ ChatParse
    \/ ChatEnforce
    \/ ChatRespond
    \/ ChatError
    \/ ChatDone
    \/ CliRead
    \/ CliInvoke
    \/ CliParse
    \/ CliShow
    \/ CliFallback
    \/ CliLoop

ShellSpec == Init /\ [][ShellNext]_vars

(***************************************************************************)
(* hltb_service.py and the hltb_lengths tool of main.py                    *)
(***************************************************************************)
\* str(n) of a number of hours
RECURSIVE str_number(_)
str_number(n) ==
    IF n < 10 THEN <<<<"0","1","2","3","4","5","6","7","8","9">>[n + 1]>>
    ELSE str_number(n \div 10) \o str_number(n % 10)

hours_suffix == <<" ","h","o","u","r","s">>
not_available == <<"N","/","A">>
main_label == <<"M","a","i","n",":"," ">>
extras_label == <<" ","|"," ","M","a","i","n","+","E","x","t","r","a","s",":"," ">>
completionist_label ==
    <<" ","|"," ","C","o","m","p","l","e","t","i","o","n","i","s","t",":"," ">>
length_not_found == <<"L","e","n","g","t","h"," ","n","o","t"," ","f","o","u","n","d",".">>

\* f"{x} hours" if x else "N/A"
hours_or_na(x) ==
    IF ~x.is_none /\ x.hours # 0 THEN str_number(x.hours) \o hours_suffix ELSE not_available

\* the first result of a list
first_result(results) == results[1]

\* max(results, key=lambda element: element.similarity): the first of the greatest
best_match(results) ==
    results[SetMin({i \in DOMAIN results :
                        \A j \in DOMAIN results : results[j].similarity <= results[i].similarity})]

\* the entries a search may return
HltbEntries ==
    [similarity : {1, 2}, main_story : {no_hours, Hours(0), Hours(12)},
     main_extra : {no_hours, Hours(105)}, completionist : {no_hours, Hours(7)}]

RECURSIVE ResultLists(_)
ResultLists(n) ==
    IF n = 0 THEN {<<>>}
    ELSE ResultLists(n - 1)
         \cup {Append(list, e) : list \in {l \in ResultLists(n - 1) : Len(l) = n - 1},
                                 e \in HltbEntries}

\* HLTBService.lengths, from what async_search did
lengths(outcome, results) ==
    IF outcome = "raised" THEN None
    ELSE IF outcome = "None" \/ Len(results) = 0 THEN None
    ELSE The({Str(main_label \o hours_or_na(best.main_story)
                  \o extras_label \o hours_or_na(best.main_extra)
                  \o completionist_label \o hours_or_na(best.completionist))
              : best \in {best_match(results)}})

\* _t_hltb_lengths: `await _hltb.lengths(game_name) or "Length not found."`
t_hltb_lengths(value) ==
    IF value.is_none \/ ~truthy(value.text) THEN Str(length_not_found) ELSE value

\* results = await HowLongToBeat().async_search(game_name): a list, None, or an exception
Search ==
    /\ hltb.at = "idle"
    /\ \/ \E results \in ResultLists(MaxResults) :
            hltb' = [hltb EXCEPT !.at = "searched", !.outcome = "list", !.results = results]
       \/ hltb' = [hltb EXCEPT !.at = "searched", !.outcome = "None"]
       \/ hltb' = [hltb EXCEPT !.at = "searched", !.outcome = "raised"]
    /\ UNCHANGED <<pc, user_query, draft, parsed, returned, lines, final, plot_vars, calls, shell>>

\* the rest of HLTBService.lengths: what it returns
Lengths ==
    /\ hltb.at = "searched"
    /\ hltb' = [hltb EXCEPT !.at = "returned", !.value = lengths(hltb.outcome, hltb.results)]
    /\ UNCHANGED <<pc, user_query, draft, parsed, returned, lines, final, plot_vars, calls, shell>>

\* the tool's return value
ToolReturn ==
    /\ hltb.at = "returned"
    /\ hltb' = [hltb EXCEPT !.at = "answered", !.answer = t_hltb_lengths(hltb.value)]
    /\ UNCHANGED <<pc, user_query, draft, parsed, returned, lines, final, plot_vars, calls, shell>>

\* the agent has the tool's answer
ToolDone ==
    /\ hltb.at = "answered"
    /\ hltb' = idle_hltb
    /\ UNCHANGED <<pc, user_query, draft, parsed, returned, lines, final, plot_vars, calls, shell>>

HltbNext == Search \/ Lengths \/ ToolReturn \/ ToolDone

HltbSpec == Init /\ [][HltbNext]_vars

(***************************************************************************)
(* Vocabulary of the properties                                            *)
(***************************************************************************)
\* the record the k-th call of enforce_output_rules received
Input(k) == IF k = 1 THEN draft ELSE returned[k - 1]

Calls == DOMAIN returned

HasTrigger(text) ==
    \E w \in
        {<<"k","i","l","l","s">>, <<"d","i","e","s">>, <<"d","e","a","t","h">>,
         <<"b","e","t","r","a","y">>, <<"t","w","i","s","t">>,
         <<"e","n","d","i","n","g">>, <<"f","i","n","a","l"," ","b","o","s","s">>,
         <<"r","e","v","e","a","l","s">>} : contains(lower(text), w)

IsBlank(text) == \A i \in 1..Len(text) : text[i] \in Whitespace

IsPrefix(a, b) == Len(a) <= Len(b) /\ SubSeq(b, 1, Len(a)) = a
IsSuffix(a, b) == Len(a) <= Len(b) /\ SubSeq(b, Len(b) - Len(a) + 1, Len(b)) = a

\* text without its leading whitespace
LeftTrimmed(text) ==
    LET keep == {i \in 1..Len(text) : text[i] \notin Whitespace}
    IN  IF keep = {} THEN <<>> ELSE SubSeq(text, SetMin(keep), Len(text))

DeclaredSchema ==
    {"summary", "spoilers", "no_spoilers", "game_tips", "lore", "warning",
     "rawg_data", "game_length", "wiki_data", "can_be_spoiler", "topic"}

\* P1 to P4 as conditions on a record
SatisfiesP1toP4(r) ==
    /\ ~HasTrigger(r.no_spoilers)
    /\ (r.spoilers # <<>> => r.warning # <<>>)
    /\ DOMAIN r = DeclaredSchema
    /\ r.topic # ""

\* the sentences of a text, as split_plot_sections counts them
SentenceCount(text) == Len(re_split_sentences(text, 1, 1))

(***************************************************************************)
(* C1  P1 containment                                                      *)
(***************************************************************************)
\* C1: in every record enforce_output_rules returns, the lower-cased no_spoilers
\* contains none of the trigger terms, whatever the topic.
P1_Containment ==
    \A k \in Calls : ~HasTrigger(returned[k].no_spoilers)

(***************************************************************************)
(* C2  P2 warning pairing                                                  *)
(***************************************************************************)
\* C2: in every record enforce_output_rules returns, spoilers non-empty implies
\* warning non-empty; a warning present in the input is kept, and an absent one is
\* set to exactly "Contains major spoilers".
P2_WarningPairing ==
    \A k \in Calls :
        /\ returned[k].spoilers # <<>> => returned[k].warning # <<>>
        /\ Input(k).warning # <<>> => returned[k].warning = Input(k).warning
        /\ (Input(k).warning = <<>> /\ returned[k].spoilers # <<>>)
            => returned[k].warning =
                <<"C","o","n","t","a","i","n","s"," ","m","a","j","o","r"," ",
                  "s","p","o","i","l","e","r","s">>

\* a draft with spoilers and no warning has been enforced
P2_Witness ==
    /\ pc = "enforced"
    /\ draft.spoilers # <<>>
    /\ draft.warning = <<>>
    /\ ~HasTrigger(draft.no_spoilers)
    /\ returned[1].warning # <<>>

(***************************************************************************)
(* C3  P4 topic totality                                                   *)
(***************************************************************************)
\* C3: every record enforce_output_rules returns has a non-empty topic.
P4_TopicTotality ==
    \A k \in Calls : returned[k].topic # ""

(***************************************************************************)
(* C4  P3 schema closure                                                   *)
(***************************************************************************)
\* C4: the fields of every record enforce_output_rules returns are exactly the 11
\* declared fields of Response: extra fields are gone, declared ones remain.
P3_SchemaClosure ==
    \A k \in Calls : DOMAIN returned[k] = DeclaredSchema

\* a draft carrying debug_trace has been enforced
P3_Witness ==
    /\ pc = "enforced"
    /\ "debug_trace" \in DOMAIN draft
    /\ "debug_trace" \notin DOMAIN parsed

(***************************************************************************)
(* C5  P6 idempotence                                                      *)
(***************************************************************************)
\* C5 as stated: for a draft satisfying P1 to P4, a second call of
\* enforce_output_rules with the same query returns the record the first returned.
P6_Idempotence ==
    SatisfiesP1toP4(draft) =>
        \A k \in Calls : k >= 2 => returned[k] = returned[k - 1]

\* C5 amended: for a draft satisfying P1 to P4 whose topic is not plot or whose
\* no_spoilers is empty, every further call of enforce_output_rules with the same
\* query returns the record the first call returned.
P6_IdempotenceOffPlot ==
    (SatisfiesP1toP4(draft) /\ (draft.topic # "plot" \/ draft.no_spoilers = <<>>)) =>
        \A k \in Calls : k >= 2 => returned[k] = returned[k - 1]

\* a multi-sentence no_spoilers under a topic other than plot, enforced twice
P6_Witness ==
    /\ Len(returned) >= 2
    /\ SatisfiesP1toP4(draft)
    /\ draft.topic # "plot"
    /\ SentenceCount(draft.no_spoilers) >= 4
    /\ returned[2] = returned[1]

(***************************************************************************)
(* C6  P5 composer emptiness                                               *)
(***************************************************************************)
\* the field a labelled block is built from
LabelledSource ==
    [no_spoilers |-> "no_spoilers", warning |-> "warning", spoilers |-> "spoilers",
     lore |-> "lore", game_tips |-> "game_tips", wiki_data |-> "wiki_data",
     rawg_info |-> "rawg_data"]

\* C6: format_response emits no labelled block (Plot, warning, Full Plot, Lore, Tips,
\* From Wiki, Info) whose source field is empty or only whitespace.
P5_ComposerEmptiness ==
    pc = "formatted" =>
        \A i \in DOMAIN lines :
            lines[i].kind \in DOMAIN LabelledSource
                => ~IsBlank(parsed[LabelledSource[lines[i].kind]])

(***************************************************************************)
(* C7  I1 leak re-routing                                                  *)
(***************************************************************************)
\* C7: when the input's no_spoilers contains a trigger term, the returned record has
\* no_spoilers empty and spoilers = strip(previous spoilers + "\n" + previous
\* no_spoilers): the previous spoilers (less leading whitespace) is a prefix and the
\* moved text (trimmed) a suffix. Scenario A: the query "Explain the ending of Elden
\* Ring" with an empty topic gives topic spoilers and the fixed warning.
I1_LeakRerouting ==
    /\ \A k \in Calls :
        HasTrigger(Input(k).no_spoilers) =>
            /\ returned[k].no_spoilers = <<>>
            /\ returned[k].spoilers =
                    strip(Input(k).spoilers \o <<"\n">> \o Input(k).no_spoilers)
            /\ IsPrefix(LeftTrimmed(Input(k).spoilers), returned[k].spoilers)
            /\ IsSuffix(strip(Input(k).no_spoilers), returned[k].spoilers)
    /\ (/\ Len(returned) >= 1
        /\ user_query = q_ending
        /\ draft = Draft("", t_scenario_a, <<>>, <<>>))
        => /\ returned[1].topic = "spoilers"
           /\ returned[1].no_spoilers = <<>>
           /\ returned[1].spoilers = t_scenario_a
           /\ returned[1].warning = default_warning

\* a leaking no_spoilers has been moved behind spoilers the draft already had
I1_Witness ==
    /\ pc = "enforced"
    /\ HasTrigger(draft.no_spoilers)
    /\ ~IsBlank(draft.spoilers)
    /\ returned[1].no_spoilers = <<>>
    /\ Len(returned[1].spoilers) > Len(strip(draft.spoilers))

(***************************************************************************)
(* C8  topic classification, first match wins                              *)
(***************************************************************************)
\* the priority list of the classifier: rule number |-> (keywords, tag)
TopicRules ==
    << [words |-> {metadata_keywords[i] : i \in DOMAIN metadata_keywords}, tag |-> "metadata"],
       [words |-> {kw_character}, tag |-> "characters"],
       [words |-> {kw_lore, kw_world}, tag |-> "lore"],
       [words |-> {kw_dlc, kw_expansion}, tag |-> "dlc"],
       [words |-> {kw_ending, kw_spoil}, tag |-> "spoilers"],
       [words |-> {kw_story, kw_plot}, tag |-> "plot"],
       [words |-> {kw_gameplay, kw_mechanic, kw_combat}, tag |-> "gameplay"],
       [words |-> {tips_keywords[i] : i \in DOMAIN tips_keywords}, tag |-> "tips"] >>

MatchingRules(query) ==
    {r \in DOMAIN TopicRules : \E w \in TopicRules[r].words : contains(lower(query), w)}

HasLengthKeyword(query) ==
    \E i \in DOMAIN length_keywords : contains(lower(query), length_keywords[i])

\* C8: for an input with empty topic and a query with no length keyword that matches
\* at least one rule, the returned topic is the tag of the lowest-numbered matching rule.
TopicFirstMatchWins ==
    \A k \in Calls :
        (/\ Input(k).topic = ""
         /\ ~HasLengthKeyword(user_query)
         /\ MatchingRules(user_query) # {})
            => returned[k].topic = TopicRules[SetMin(MatchingRules(user_query))].tag

\* a query matching two rules has been classified
TopicFirstMatch_Witness ==
    /\ pc = "enforced"
    /\ draft.topic = ""
    /\ ~HasLengthKeyword(user_query)
    /\ Cardinality(MatchingRules(user_query)) >= 2
    /\ parsed.topic = TopicRules[SetMin(MatchingRules(user_query))].tag

(***************************************************************************)
(* C9  spoilers only on request                                            *)
(***************************************************************************)
\* C9: for an input whose spoilers is empty and whose resolved topic is not spoilers,
\* the returned spoilers is empty.
SpoilersOnlyOnRequest ==
    \A k \in Calls :
        (Input(k).spoilers = <<>> /\ returned[k].topic # "spoilers")
            => returned[k].spoilers = <<>>

(***************************************************************************)
(* C10  composer ordering                                                  *)
(***************************************************************************)
\* the place of each block in the fixed order
BlockRank ==
    [rawg_top |-> 1, length_top |-> 2, summary |-> 3, no_spoilers |-> 4, warning |-> 5,
     spoilers |-> 6, lore |-> 7, game_tips |-> 8, wiki_data |-> 9, rawg_info |-> 10,
     length_bottom |-> 11]

\* the field whose non-emptiness a block requires
BlockField ==
    [rawg_top |-> "rawg_data", length_top |-> "game_length", summary |-> "summary",
     no_spoilers |-> "no_spoilers", warning |-> "warning", spoilers |-> "spoilers",
     lore |-> "lore", game_tips |-> "game_tips", wiki_data |-> "wiki_data",
     rawg_info |-> "rawg_data", length_bottom |-> "game_length"]

\* the blocks one after the other, a blank line between two of them
RECURSIVE BlankLineJoined(_)
BlankLineJoined(blocks) ==
    IF Len(blocks) = 0 THEN <<>>
    ELSE IF Len(blocks) = 1 THEN blocks[1].text
    ELSE blocks[1].text \o <<"\n", "\n">> \o BlankLineJoined(Tail(blocks))

\* C10: the blocks format_response emits are in the fixed order (metadata_line and
\* length_line first only under topic metadata, last only under another topic), each
\* only if its field is non-empty; the text returned is the blocks joined by one blank
\* line, without leading or trailing whitespace.
ComposerOrdering ==
    pc = "formatted" =>
        /\ \A i, j \in DOMAIN lines :
            i < j => BlockRank[lines[i].kind] < BlockRank[lines[j].kind]
        /\ \A i \in DOMAIN lines :
            /\ parsed[BlockField[lines[i].kind]] # <<>>
            /\ lines[i].kind \in {"rawg_top", "length_top"} => parsed.topic = "metadata"
            /\ lines[i].kind \in {"rawg_info", "length_bottom"} => parsed.topic # "metadata"
            /\ lines[i].kind = "warning" => parsed.spoilers # <<>>
        /\ final = strip(BlankLineJoined(lines))
        /\ final # <<>> => (final[1] \notin Whitespace /\ final[Len(final)] \notin Whitespace)

\* every block of a non-metadata topic has been emitted
ComposerOrdering_Witness ==
    /\ pc = "formatted"
    /\ Len(lines) >= 9
    /\ lines[Len(lines)].kind = "length_bottom"

(***************************************************************************)
(* C11  metadata placement                                                 *)
(***************************************************************************)
\* the blocks that carry rawg_data
RawgBlocks == {i \in DOMAIN lines : lines[i].kind \in {"rawg_top", "rawg_info"}}

\* the blocks that carry narrative or reference text
NarrativeKinds ==
    {"summary", "no_spoilers", "warning", "spoilers", "lore", "game_tips", "wiki_data"}

\* C11: a non-blank rawg_data is emitted exactly once under every topic: under
\* metadata as the first block, unlabelled, with game_length (when it is not blank)
\* directly after it; under any other topic as the "Info" block, after every
\* narrative block.  In Scenario B enforce_output_rules sets topic metadata and the
\* composed text is exactly "Released: 2020".
MetadataPlacement ==
    /\ (pc = "formatted" /\ ~IsBlank(parsed.rawg_data)) =>
        /\ Cardinality(RawgBlocks) = 1
        /\ parsed.topic = "metadata" =>
            /\ lines[1] = [kind |-> "rawg_top", text |-> strip(parsed.rawg_data)]
            /\ ~IsBlank(parsed.game_length) =>
                /\ Len(lines) >= 2
                /\ lines[2] = [kind |-> "length_top", text |-> strip(parsed.game_length)]
        /\ parsed.topic # "metadata" =>
            \A i \in RawgBlocks :
                /\ lines[i] = [kind |-> "rawg_info",
                               text |-> <<"*","*","I","n","f","o",":","*","*"," ">>
                                        \o strip(parsed.rawg_data)]
                /\ \A j \in DOMAIN lines : lines[j].kind \in NarrativeKinds => j < i
    /\ (user_query = scenario_b[1] /\ draft = scenario_b[2]) =>
        /\ \A k \in Calls : returned[k].topic = "metadata"
        /\ (pc = "formatted" /\ Len(returned) >= 1) =>
            final = <<"R","e","l","e","a","s","e","d",":"," ","2","0","2","0">>

\* Scenario B has been enforced and composed
MetadataPlacement_Witness ==
    /\ pc = "formatted"
    /\ user_query = scenario_b[1]
    /\ draft = scenario_b[2]
    /\ Len(returned) = 1
    /\ final = parsed.rawg_data

(***************************************************************************)
(* C12  plot-topic suppression                                             *)
(***************************************************************************)
\* C12: under topic plot or spoilers format_response emits neither the From Wiki
\* block nor a game_length block, whatever the two fields hold; under every other
\* topic but metadata the From Wiki block is emitted when wiki_data is non-empty and
\* game_length, when it holds text, is the last block.
PlotTopicSuppression ==
    pc = "formatted" =>
        /\ parsed.topic \in {"plot", "spoilers"} =>
            \A i \in DOMAIN lines :
                lines[i].kind \notin {"wiki_data", "length_top", "length_bottom"}
        /\ parsed.topic \notin {"plot", "spoilers", "metadata"} =>
            /\ parsed.wiki_data # <<>> =>
                \E i \in DOMAIN lines :
                    lines[i] = [kind |-> "wiki_data",
                                text |-> <<"*","*","F","r","o","m"," ","W","i","k","i",":",
                                           "*","*","\n">> \o strip(parsed.wiki_data)]
            /\ ~IsBlank(parsed.game_length) =>
                /\ Len(lines) >= 1
                /\ lines[Len(lines)] =
                    [kind |-> "length_bottom", text |-> strip(parsed.game_length)]

\* a plot record holding wiki_data and game_length has been composed into some text
PlotTopicSuppression_Witness ==
    /\ pc = "formatted"
    /\ parsed.topic = "plot"
    /\ ~IsBlank(parsed.wiki_data)
    /\ ~IsBlank(parsed.game_length)
    /\ ~IsBlank(parsed.rawg_data)
    /\ lines[Len(lines)].kind = "rawg_info"

(***************************************************************************)
(* C13  warning adjacency                                                  *)
(***************************************************************************)
WarningBlocks == {i \in DOMAIN lines : lines[i].kind = "warning"}

\* C13: when spoilers and warning are both non-empty, format_response emits the
\* warning once, as the block immediately before the Full Plot block, so that the
\* text holds the bold warning, a blank line and the Full Plot header in a row; when
\* spoilers is empty no warning block is emitted.
WarningAdjacency ==
    pc = "formatted" =>
        /\ (parsed.spoilers # <<>> /\ parsed.warning # <<>>) =>
            /\ Cardinality(WarningBlocks) = 1
            /\ \A i \in WarningBlocks :
                /\ lines[i].text = <<"*","*">> \o parsed.warning \o <<"*","*">>
                /\ i < Len(lines)
                /\ lines[i + 1].kind = "spoilers"
            /\ contains(final,
                        <<"*","*">> \o parsed.warning \o <<"*","*","\n","\n">>
                        \o <<"*","*","F","u","l","l"," ","P","l","o","t",":","*","*">>)
        /\ parsed.spoilers = <<>> => WarningBlocks = {}

\* a warning has been composed between the Plot block and the Full Plot block
WarningAdjacency_Witness ==
    /\ pc = "formatted"
    /\ ~IsBlank(parsed.warning)
    /\ ~IsBlank(parsed.spoilers)
    /\ ~IsBlank(parsed.no_spoilers)
    /\ ~IsBlank(parsed.lore)
    /\ \E i \in DOMAIN lines : lines[i].kind = "warning" /\ i > 1

(***************************************************************************)
(* C14  an empty record composes to nothing                                *)
(***************************************************************************)
AllTextEmpty(r) ==
    \A f \in {"summary", "spoilers", "no_spoilers", "game_tips", "lore", "warning",
              "rawg_data", "game_length", "wiki_data"} : r[f] = <<>>

\* C14: format_response returns the empty string for a record whose text fields are
\* all empty, whatever its topic, and enforce_output_rules returns such a record with
\* its text fields still empty.
EmptyComposesToNothing ==
    /\ (pc = "formatted" /\ AllTextEmpty(parsed)) => (lines = <<>> /\ final = <<>>)
    /\ \A k \in Calls : AllTextEmpty(Input(k)) => AllTextEmpty(returned[k])

\* Scenario D has been enforced and composed
EmptyComposesToNothing_Witness ==
    /\ pc = "formatted"
    /\ user_query = scenario_d[1]
    /\ draft = scenario_d[2]
    /\ Len(returned) = 1
    /\ parsed.topic = "gameplay"
    /\ final = <<>>

(***************************************************************************)
(* C15  plot re-filtering (Scenario C)                                     *)
(***************************************************************************)
\* the places of the early and of the mid sentences among n >= 4 sentences
EarlyPlaces(n) == 1..(n \div 3)
MidPlaces(n) == ((n \div 3) + 1)..((2 * n) \div 3)

\* the first `most` places of a set, in order
RECURSIVE FirstPlaces(_, _)
FirstPlaces(places, most) ==
    IF places = {} \/ most = 0 THEN <<>>
    ELSE <<SetMin(places)>> \o FirstPlaces(places \ {SetMin(places)}, most - 1)

\* the early sentences of "Aa. Bb. ..." and its first two mid sentences other than
\* sentence p, joined by single spaces; the last mid sentence kept is without its
\* full stop
FilteredPlot(n, p) ==
    LET kept == FirstPlaces(MidPlaces(n) \ {p}, 2)
        places == FirstPlaces(EarlyPlaces(n), n) \o kept
        joined == join(<<" ">>, [i \in 1..Len(places) |-> Sentence(places[i])])
    IN  IF kept = <<>> THEN joined ELSE SubSeq(joined, 1, Len(joined) - 1)

StageAfter ==
    [Received |-> "TopicResolved", TopicResolved |-> "SpoilerSafe",
     SpoilerSafe |-> "Hygienic", Hygienic |-> "Done"]

\* one step of the program seen from the stages
StageStep ==
    /\ pc \in DOMAIN StageAfter => pc' = StageAfter[pc]
    /\ pc' \in DOMAIN StageAfter =>
        IF pc' = "Received" THEN pc \notin DOMAIN StageAfter
        ELSE pc \in DOMAIN StageAfter /\ StageAfter[pc] = pc'
    /\ pc' = "Done" => pc = "Hygienic"

\* the call that is running or has just returned, counted from 1
CurrentCall == IF pc = "Done" THEN Len(returned) ELSE Len(returned) + 1

\* C16: a call of enforce_output_rules goes from Received to TopicResolved, SpoilerSafe,
\* Hygienic and Done, one stage after the other and never back; every call that is
\* received reaches Done, where the record is the one enforce_output_rules returns;
\* an empty no_spoilers or spoilers is no content: nothing is moved, no warning is
\* added and the field is returned empty.
EnforcerPipeline ==
    /\ [][StageStep]_vars
    /\ [](pc = "Done" =>
            /\ parsed = enforce_output_rules(Input(CurrentCall), user_query)
            /\ Input(CurrentCall).no_spoilers = <<>> =>
                /\ parsed.no_spoilers = <<>>
                /\ parsed.spoilers = Input(CurrentCall).spoilers
            /\ (Input(CurrentCall).no_spoilers = <<>> /\ Input(CurrentCall).spoilers = <<>>)
                => parsed.warning = Input(CurrentCall).warning)
    /\ (pc = "Received") ~> (pc = "Done")

\* a call on a record with no text at all has gone through to Done
EnforcerPipeline_Witness ==
    /\ pc = "Done"
    /\ Len(returned) = 1
    /\ AllTextEmpty(draft)
    /\ draft.topic = ""
    /\ parsed.topic # ""

(***************************************************************************)
(* C17  split_plot_sections partitions the sentences                       *)
(***************************************************************************)
\* the sentences of a text: split after . ! ? followed by spaces
SentencesOf(t) == re_split_sentences(t, 1, 1)

\* each text of a list without its outer whitespace
Trimmed(list) == [i \in DOMAIN list |-> strip(list[i])]

HasTwistMarker(t) ==
    \E w \in
        {<<"b","e","t","r","a","y">>, <<"t","w","i","s","t">>,
         <<"r","e","v","e","a","l","s">>, <<"s","e","c","r","e","t">>,
         <<"d","i","e","s">>, <<"d","e","a","t","h">>, <<"k","i","l","l","s">>,
         <<"f","i","n","a","l">>, <<"e","n","d","i","n","g">>,
         <<"c","o","n","f","r","o","n","t","s">>} : contains(lower(t), w)

\* the trimmed, non-blank stretches of a text between its full stops, in order
PeriodPieces(t) ==
    LET dots == {i \in 1..Len(t) : t[i] = "."}
        cuts == <<0>> \o FirstPlaces(dots, Cardinality(dots)) \o <<Len(t) + 1>>
        all == [k \in 1..(Len(cuts) - 1) |-> strip(SubSeq(t, cuts[k] + 1, cuts[k + 1] - 1))]
        NonBlank(piece) == piece # <<>>
    IN  SelectSeq(all, NonBlank)

\* the pieces of the mid section that may be kept: at most two, none with a marker
KeptPieces ==
    LET Clear(piece) == ~HasTwistMarker(piece)
        clear == SelectSeq(PeriodPieces(sections[2]), Clear)
    IN  SubSeq(clear, 1, IF Len(clear) < 2 THEN Len(clear) ELSE 2)

HasCitation(t) ==
    \E i, j \in 1..Len(t) :
        /\ t[i] = "[" /\ t[j] = "]" /\ j > i + 1
        /\ \A k \in (i + 1)..(j - 1) : t[k] \in {"0","1","2","3","4","5","6","7","8","9"}

\* t holds two whitespace characters in a row
HasWhitespaceRun(t) ==
    \E i \in 1..(Len(t) - 1) : t[i] \in {" ", "\n", "\t"} /\ t[i + 1] \in {" ", "\n", "\t"}

\* t holds "(", at most 30 characters other than ")" and ")" in a row
HasShortParenthetical(t) ==
    \E i, j \in 1..Len(t) :
        /\ t[i] = "(" /\ t[j] = ")" /\ i < j /\ j - i - 1 <= 30
        /\ \A k \in (i + 1)..(j - 1) : t[k] # ")"

\* C19: the text clean_plot_text returns holds no [digits] marker, no run of two or
\* more whitespace characters and no parenthetical of at most 30 characters, begins
\* and ends with no whitespace, and is returned unchanged by a further
\* clean_plot_text.
CleanNormalises ==
    /\ pc \in {"cleaned", "split", "filtered", "recleaned"} =>
        /\ ~HasCitation(cleaned)
        /\ ~HasWhitespaceRun(cleaned)
        /\ ~HasShortParenthetical(cleaned)
        /\ cleaned = strip(cleaned)
    /\ pc = "recleaned" => recleaned = cleaned

(***************************************************************************)
(* C20  concurrent use                                                     *)
(***************************************************************************)
\* what a call returns when it runs alone
AloneRecord(c) == enforce_output_rules(calls[c].draft, calls[c].user_query)

\* a step changes the state of one call at most
OneCallPerStep ==
    \A c, d \in Callers : (calls'[c] # calls[c] /\ calls'[d] # calls[d]) => c = d

\* C20: whatever the interleaving of the steps of the calls, each call returns the
\* record and the text it returns when run alone on its record and query, and no
\* step of a call changes the record, the query or the place of another call.
ConcurrentUse ==
    /\ [](\A c \in Callers :
            /\ calls[c].pc \in {"Done", "formatted"} => calls[c].parsed = AloneRecord(c)
            /\ calls[c].pc = "formatted" => calls[c].final = format_response(AloneRecord(c)))
    /\ [][OneCallPerStep]_vars

\* a call whose topic came from its query has finished while a call with another query
\* and an unset topic is still in the middle of enforce_output_rules
ConcurrentUse_Witness ==
    /\ calls[2].pc = "formatted"
    /\ calls[2].draft.topic = ""
    /\ calls[2].parsed.topic = "spoilers"
    /\ calls[1].pc = "Received"
    /\ calls[1].draft.topic = ""
    /\ calls[1].user_query # calls[2].user_query

(***************************************************************************)
(* C21, C22: the transport shell                                           *)
(***************************************************************************)
Range(seq) == {seq[i] : i \in DOMAIN seq}

\* the text the core produces for the turn: the composer's, of the enforced record
ComposedForTurn ==
    format_response(enforce_output_rules(parser_parse(shell.output), shell.message))

\* C21: on both transport paths (the /chat handler and the command-line loop) a draft
\* that was parsed goes through enforce_output_rules and then format_response, in that
\* order, and what reaches the user is the composer's text and nothing else.
EnforceThenCompose ==
    (shell.at = "answered" /\ parses(shell.output)) =>
        /\ shell.trail = <<"enforce_output_rules", "format_response">>
        /\ shell.shown = <<Shown("text", "", ComposedForTurn)>>

\* C22: when the agent's output cannot be parsed, enforce_output_rules is not called in
\* that turn and the shell shows the raw output to the user, on both transport paths.
MalformedFallsBackToRaw ==
    (shell.at = "answered" /\ shell.error = "OutputParserException") =>
        /\ "enforce_output_rules" \notin Range(shell.trail)
        /\ \E i \in DOMAIN shell.shown : shell.shown[i].kind = "output"

(***************************************************************************)
(* C23  the length-intent override                                         *)
(***************************************************************************)
\* the tag of the first rule the query matches, "" when it matches none
ClassifierTag(query) ==
    IF MatchingRules(query) = {} THEN ""
    ELSE TopicRules[SetMin(MatchingRules(query))].tag

\* C23 as stated: the length keywords are tested after the keyword classification and
\* set the topic to metadata only if it is then still empty or "summary"; an empty topic
\* with a query matching a classifier rule and a length keyword keeps the classifier's tag.
LengthOverrideSecondary ==
    \A k \in Calls :
        LET classified ==
                IF Input(k).topic = "" THEN ClassifierTag(user_query) ELSE Input(k).topic
        IN  returned[k].topic =
                IF HasLengthKeyword(user_query) /\ classified \in {"", "summary"}
                THEN "metadata" ELSE classified

\* C23: the length keywords are tested before the keyword classification and set the
\* topic to metadata if the input's topic is empty or "summary"; the classifier decides
\* only when the topic is still empty after that, so an empty topic with a query matching
\* a classifier rule and a length keyword is returned as metadata.
LengthOverrideFirst ==
    \A k \in Calls :
        LET overridden ==
                IF HasLengthKeyword(user_query) /\ Input(k).topic \in {"", "summary"}
                THEN "metadata" ELSE Input(k).topic
        IN  returned[k].topic =
                IF overridden = "" THEN ClassifierTag(user_query) ELSE overridden

\* an empty topic, a query with a length keyword that the classifier would tag otherwise
LengthOverride_Witness ==
    /\ pc = "enforced"
    /\ draft.topic = ""
    /\ HasLengthKeyword(user_query)
    /\ ClassifierTag(user_query) \notin {"", "metadata"}
    /\ parsed.topic = "metadata"

(***************************************************************************)
(* C24  one trigger list for the enforcer and the extractor                *)
(***************************************************************************)
\* step 2 of enforce_output_rules moves a no_spoilers made of the sentence s
FlaggedByEnforcer(s) == prevent_leakage(Draft("", s, <<>>, <<>>)).no_spoilers = <<>>

\* the mid-section loop of extract_spoiler_free leaves the sentence s out
DiscardedByExtractor(s) == safe_mid_sentences(<<s>>) = <<>>

\* C24: the enforcer's leak scan and the extractor's mid-section filter use the same
\* term list: a sentence is flagged by the scan if and only if the filter discards it.
SharedTriggerList ==
    pc \in {"split", "filtered", "recleaned"} =>
        \A s \in Range(PeriodPieces(sections[2])) :
            FlaggedByEnforcer(s) <=> DiscardedByExtractor(s)

\* the extractor's markers that are no term of the enforcer, and hold none
ExtractorOnlyMarkers ==
    {<<"s","e","c","r","e","t">>, <<"f","i","n","a","l">>,
     <<"c","o","n","f","r","o","n","t","s">>}

\* C24: the lists differ.  Every sentence the enforcer's scan flags is one the
\* extractor's filter discards; the filter discards, besides those, exactly the
\* sentences holding "secret", "final" or "confronts".
EnforcerTermsAreTwistMarkers ==
    pc \in {"split", "filtered", "recleaned"} =>
        \A s \in Range(PeriodPieces(sections[2])) :
            /\ FlaggedByEnforcer(s) => DiscardedByExtractor(s)
            /\ DiscardedByExtractor(s) <=>
                  (FlaggedByEnforcer(s) \/ \E w \in ExtractorOnlyMarkers : contains(lower(s), w))

\* a mid section with a sentence both discard and a sentence only the extractor discards
SharedTriggerList_Witness ==
    /\ pc = "filtered"
    /\ \E s \in Range(PeriodPieces(sections[2])) : FlaggedByEnforcer(s) /\ DiscardedByExtractor(s)
    /\ \E s \in Range(PeriodPieces(sections[2])) : ~FlaggedByEnforcer(s) /\ DiscardedByExtractor(s)

(***************************************************************************)
(* C25  can_be_spoiler and the resolved topic                              *)
(***************************************************************************)
\* C25: in every record enforce_output_rules returns, can_be_spoiler is true when the
\* topic is plot or spoilers, also when the classifier derived the topic from the query.
CanBeSpoilerTracksTopic ==
    \A k \in Calls :
        returned[k].topic \in {"plot", "spoilers"} => returned[k].can_be_spoiler = TRUE

(***************************************************************************)
(* C26  the frame of enforce_output_rules                                  *)
(***************************************************************************)
FrameFields ==
    {"summary", "game_tips", "lore", "rawg_data", "game_length", "wiki_data",
     "can_be_spoiler"}

\* C26: enforce_output_rules returns summary, game_tips, lore, rawg_data, game_length,
\* wiki_data and can_be_spoiler as it received them; and when no_spoilers holds no
\* trigger term and the topic it resolves is not plot, no_spoilers and spoilers too.
EnforceFrame ==
    \A k \in Calls :
        /\ \A f \in FrameFields : returned[k][f] = Input(k)[f]
        /\ (~HasTrigger(Input(k).no_spoilers) /\ returned[k].topic # "plot") =>
                /\ returned[k].no_spoilers = Input(k).no_spoilers
                /\ returned[k].spoilers = Input(k).spoilers

\* every framed field is filled and kept, no_spoilers and spoilers are kept, and the
\* warning was added
EnforceFrame_Witness ==
    /\ pc = "enforced"
    /\ Len(returned) = 1
    /\ \A f \in FrameFields \ {"can_be_spoiler"} : draft[f] # <<>> /\ parsed[f] = draft[f]
    /\ draft.spoilers # <<>>
    /\ parsed.spoilers = draft.spoilers
    /\ parsed.topic # "plot"
    /\ draft.warning = <<>>
    /\ parsed.warning # <<>>

(***************************************************************************)
(* C27  a topic supplied by the draft                                      *)
(***************************************************************************)
\* the closed tag set of topic
TopicTags ==
    {"metadata", "plot", "spoilers", "characters", "development", "lore", "gameplay",
     "tips", "dlc", ""}

\* C27: a topic that is neither empty nor "summary" is returned as received, whatever
\* the query; "summary" is changed only to metadata and only under a length keyword;
\* and a topic of the closed tag set is returned as a topic of the closed tag set.
DraftTopicWins ==
    \A k \in Calls :
        /\ Input(k).topic \notin {"", "summary"} => returned[k].topic = Input(k).topic
        /\ Input(k).topic = "summary" =>
                /\ returned[k].topic \in {"summary", "metadata"}
                /\ returned[k].topic = "metadata" => HasLengthKeyword(user_query)
        /\ Input(k).topic \in TopicTags => returned[k].topic \in TopicTags

\* a draft topic kept against a query with a length keyword and another rule's keyword
DraftTopicWins_Witness ==
    /\ pc = "enforced"
    /\ draft.topic = "development"
    /\ HasLengthKeyword(user_query)
    /\ ClassifierTag(user_query) \notin {"", "development"}
    /\ parsed.topic = "development"

(***************************************************************************)
(* C28  the spoiler warning, end to end                                    *)
(***************************************************************************)
\* C28: in the text format_response composes from a record enforce_output_rules has
\* returned, a Full Plot block is always directly preceded by the warning block: the
\* text holds the bold warning, a blank line and the Full Plot header in a row.
EndToEndWarning ==
    (pc = "formatted" /\ returned # <<>>) =>
        /\ lines = non_blank(format_lines(enforce_output_rules(Input(Len(returned)), user_query)))
        /\ \A i \in DOMAIN lines :
            lines[i].kind = "spoilers" =>
                /\ i > 1
                /\ lines[i - 1].kind = "warning"
                /\ parsed.warning # <<>>
                /\ lines[i - 1].text = <<"*","*">> \o parsed.warning \o <<"*","*">>
                /\ contains(final,
                            lines[i - 1].text \o <<"\n","\n">>
                            \o <<"*","*","F","u","l","l"," ","P","l","o","t",":","*","*">>)
        /\ parsed.spoilers # <<>> => \E i \in DOMAIN lines : lines[i].kind = "spoilers"

\* a leak in a draft without spoilers and without warning has been composed as a Full
\* Plot block under the default warning
EndToEndWarning_Witness ==
    /\ pc = "formatted"
    /\ returned # <<>>
    /\ draft.spoilers = <<>>
    /\ draft.warning = <<>>
    /\ \E i \in DOMAIN lines :
        /\ lines[i].kind = "spoilers"
        /\ i > 1
        /\ lines[i - 1].text = <<"*","*">> \o default_warning \o <<"*","*">>

(***************************************************************************)
(* C29  the HowLongToBeat lookup                                           *)
(***************************************************************************)
\* a number below 1000 in decimal digits
Decimal(n) ==
    LET digit(d) == <<"0","1","2","3","4","5","6","7","8","9">>[d + 1]
    IN  (IF n >= 100 THEN <<digit(n \div 100)>> ELSE <<>>)
        \o (IF n >= 10 THEN <<digit((n \div 10) % 10)>> ELSE <<>>)
        \o <<digit(n % 10)>>

\* how a duration is shown: None and 0 are missing durations
ShownDuration(d) ==
    IF d.is_none \/ d.hours = 0 THEN <<"N","/","A">>
    ELSE Decimal(d.hours) \o <<" ","h","o","u","r","s">>

LengthLine(e) ==
    <<"M","a","i","n",":"," ">> \o ShownDuration(e.main_story)
    \o <<" ","|"," ","M","a","i","n","+","E","x","t","r","a","s",":"," ">>
    \o ShownDuration(e.main_extra)
    \o <<" ","|"," ","C","o","m","p","l","e","t","i","o","n","i","s","t",":"," ">>
    \o ShownDuration(e.completionist)

\* C29: HLTBService.lengths returns None when the search raises or finds nothing, and
\* otherwise "Main: X | Main+Extras: Y | Completionist: Z" of a result of highest
\* similarity, with "N/A" for a missing duration; the tool turns None into
\* "Length not found." and so always yields a non-empty string.
HltbNeverThrows ==
    /\ hltb.at \in {"returned", "answered"} =>
        IF hltb.outcome \in {"raised", "None"} \/ hltb.results = <<>>
        THEN hltb.value = None
        ELSE \E i \in DOMAIN hltb.results :
                /\ \A j \in DOMAIN hltb.results :
                        hltb.results[j].similarity <= hltb.results[i].similarity
                /\ hltb.value = Str(LengthLine(hltb.results[i]))
    /\ hltb.at = "answered" =>
        /\ ~hltb.answer.is_none
        /\ hltb.answer.text # <<>>
        /\ hltb.answer = IF hltb.value = None
                         THEN Str(<<"L","e","n","g","t","h"," ","n","o","t"," ","f","o","u","n","d",".">>)
                         ELSE hltb.value

\* the second of two results is the better match and has a missing duration
HltbNeverThrows_Witness ==
    /\ hltb.at = "answered"
    /\ Len(hltb.results) = 2
    /\ hltb.results[1].similarity < hltb.results[2].similarity
    /\ hltb.results[2].main_story = Hours(12)
    /\ hltb.results[2].main_extra = no_hours
    /\ hltb.results[1].main_extra # no_hours
    /\ hltb.answer = Str(LengthLine(hltb.results[2]))

=============================================================================
